---------------------------- MODULE Spec2Model ----------------------------
(***************************************************************************)
(* A model of the value tree and merge algebra of hocon-python             *)
(* (src/hocon/impl): SimpleConfigObject, AbstractConfigValue,              *)
(* AbstractConfigObject, ResolveStatus.                                    *)
(*                                                                         *)
(* Reading conventions.  The code base is Python 2 (unicode(), __unicode__,*)
(* list-valued keys() added with +).  Spelling slips of the port (value    *)
(* for self.value, resolveStatus() for resolve_status(), a method named    *)
(* without its call parentheses, camelCase names, new_copy() not passing   *)
(* the map on) are read as the member they evidently name.  Control flow,  *)
(* conditions, defaults and the arguments that are passed are modelled as  *)
(* written.  Origins are not modelled: no operation here reads them.       *)
(*                                                                         *)
(*   - No class defines __ne__ (SimpleConfigObject.py:474 defines __neq__, *)
(*     which Python never calls), so != between two config values is the   *)
(*     default comparison by identity.  Every value an operation creates   *)
(*     differs from its receiver in contents, status, flag or kind, so     *)
(*     identity of a result with the receiver coincides with equality of   *)
(*     the full representation, written # below.                           *)
(*   - A dict is modelled as insertion ordered (keys + at); set() has no   *)
(*     defined iteration order, which is an input h of every merge.        *)
(*   - An exception is modelled as the value BugOrBroken, which every      *)
(*     caller hands on.                                                    *)
(***************************************************************************)
EXTENDS Integers, Sequences, FiniteSets, TLC

\* ------------------------------------------------------------------ bounds
\* Edges (keys, counted over all levels) of the two trees of a merge together.
MaxEdges == 4
\* The same for the three trees of a fallback chain together.
ChainEdges == 4
\* Edges of the object that is pruned, and the longest path.
PruneEdges == 3
MaxPathLen == 3
\* Edges of the object a sequence of operations starts from, and the number
\* of operations of the sequence.
StartEdges == 2
MaxOps == 2

Keys == {"a", "b"}

\* ------------------------------------------------------------------ values
None == [kind |-> "None"]
BugOrBroken == [kind |-> "BugOrBroken"]
NotImplementedError == [kind |-> "NotImplementedError"]
IsNone(v) == v.kind = "None"
Raised(v) == v.kind \in {"BugOrBroken", "NotImplementedError"}

ConfigInt(n) == [kind |-> "scalar", v |-> n]
ConfigSubstitution(p) == [kind |-> "subst", path |-> p]

IsSimpleConfigObject(v) == v.kind = "object"
IsAbstractConfigObject(v) == v.kind \in {"object", "delayedobj"}
IsUnmergeable(v) == v.kind \in {"subst", "delayed", "delayedobj"}

\* Python dict, insertion ordered: keys is the order, at the mapping.
EmptyDict == [keys |-> <<>>, at |-> <<>>]
Range(s) == {s[i] : i \in DOMAIN s}
DictKeySet(m) == Range(m.keys)
DictGet(m, k) == IF k \in DictKeySet(m) THEN m.at[k] ELSE None
DictPut(m, k, v) ==
    [keys |-> IF k \in DictKeySet(m) THEN m.keys ELSE Append(m.keys, k),
     at |-> [x \in DictKeySet(m) \cup {k} |-> IF x = k THEN v ELSE m.at[x]]]
DictValues(m) == {m.at[k] : k \in DictKeySet(m)}
SingletonDict(k, v) == DictPut(EmptyDict, k, v)

\* ------------------------------------------------------------ ResolveStatus
from_boolean(resolved) == IF resolved THEN "resolved" ELSE "unresolved"

AbstractConfigValue_resolve_status(v) == "resolved"
SimpleConfigObject_resolve_status(v) == from_boolean(v.resolved)
Unmergeable_resolve_status(v) == "unresolved"

resolve_status(v) ==
    IF IsSimpleConfigObject(v) THEN SimpleConfigObject_resolve_status(v)
    ELSE IF IsUnmergeable(v) THEN Unmergeable_resolve_status(v)
    ELSE AbstractConfigValue_resolve_status(v)

from_values(values) ==
    IF \E v \in values : resolve_status(v) = "unresolved"
    THEN "unresolved" ELSE "resolved"

\* ------------------------------------------------------- SimpleConfigObject
\* __init__: status is "resolved", "unresolved" or "None" (the default).
\* __init__ with its check of the status commented out.
SimpleConfigObject_unchecked(value, status, ignores_fallbacks) ==
    [kind |-> "object", value |-> value,
     resolved |-> (status = "resolved"),
     ignores_fallbacks |-> ignores_fallbacks]

SimpleConfigObject(value, status, ignores_fallbacks) ==
    IF status # from_values(DictValues(value)) THEN BugOrBroken
    ELSE [kind |-> "object", value |-> value,
          resolved |-> (status = "resolved"),
          ignores_fallbacks |-> ignores_fallbacks]

new_copy(self, status, ignores_fallbacks) ==
    SimpleConfigObject(self.value, status, ignores_fallbacks)

keys(self) == self.value.keys
get(self, key) == DictGet(self.value, key)

ignores_fallbacks(v) ==
    IF IsSimpleConfigObject(v) THEN v.ignores_fallbacks
    ELSE resolve_status(v) = "resolved"

\* with_fallbacks_ignored that never sets the flag.
with_fallbacks_ignored_unset(self) ==
    IF IsSimpleConfigObject(self) THEN self
    ELSE IF ignores_fallbacks(self) THEN self ELSE BugOrBroken

with_fallbacks_ignored(self) ==
    IF IsSimpleConfigObject(self)
    THEN IF self.ignores_fallbacks THEN self
         ELSE new_copy(self, resolve_status(self), TRUE)
    ELSE IF ignores_fallbacks(self) THEN self ELSE BugOrBroken

\* ------------------------------------------------------------------- merge
unmerged_values(v) == IF v.kind = "subst" THEN <<v>> ELSE v.stack

construct_delayed_merge(self, stack) ==
    [kind |-> IF IsAbstractConfigObject(self) THEN "delayedobj" ELSE "delayed",
     stack |-> stack]

\* merged_with_the_unmergeable pushing the fallback itself, not its values.
merged_with_the_unmergeable_nested(self, stack, fallback) ==
    IF ignores_fallbacks(self) THEN BugOrBroken
    ELSE construct_delayed_merge(self, Append(stack, fallback))

merged_with_the_unmergeable(self, stack, fallback) ==
    IF ignores_fallbacks(self) THEN BugOrBroken
    ELSE construct_delayed_merge(self, stack \o unmerged_values(fallback))

delay_merge(self, stack, fallback) ==
    construct_delayed_merge(self, Append(stack, fallback))

\* merged_with_non_object that delays a resolved receiver too.
merged_with_non_object_delaying(self, stack, fallback) ==
    IF ignores_fallbacks(self) THEN BugOrBroken
    ELSE delay_merge(self, stack, fallback)

merged_with_non_object(self, stack, fallback) ==
    IF ignores_fallbacks(self) THEN BugOrBroken
    ELSE IF resolve_status(self) = "resolved" THEN with_fallbacks_ignored(self)
    ELSE delay_merge(self, stack, fallback)

AbstractConfigValue_merged_with_object(self, stack, fallback) ==
    IF ignores_fallbacks(self) THEN BugOrBroken
    ELSE IF IsAbstractConfigObject(self) THEN BugOrBroken
    ELSE merged_with_non_object(self, stack, fallback)

\* The iteration order of set(...): the keys of S in the order h lists them.
SetOrder(S, h) == SelectSeq(h, LAMBDA k : k \in S)

\* with_fallback without its first test, ignoresFallbacks().
with_fallback_dispatch_unguarded(self, other) ==
    IF IsUnmergeable(other) THEN "merged_with_the_unmergeable"
    ELSE IF IsAbstractConfigObject(other) THEN "merged_with_object"
    ELSE "merged_with_non_object"

with_fallback_dispatch(self, other) ==
    IF ignores_fallbacks(self) THEN "self"
    ELSE IF IsUnmergeable(other) THEN "merged_with_the_unmergeable"
    ELSE IF IsAbstractConfigObject(other) THEN "merged_with_object"
    ELSE "merged_with_non_object"

RECURSIVE with_fallback(_, _, _)
RECURSIVE merged_with_object(_, _, _)

\* merge_kept with the fallback's child winning on a key of both sides.
merge_kept_fallback_wins(first, second, h) ==
    IF IsNone(first) THEN second
    ELSE IF IsNone(second) THEN first
    ELSE with_fallback(second, first, h)

\* The child kept for one key of the loop of merged_with_object.
merge_kept(first, second, h) ==
    IF IsNone(first) THEN second
    ELSE IF IsNone(second) THEN first
    ELSE with_fallback(first, second, h)

merged_with_object(self, fallback, h) ==
    IF ignores_fallbacks(self) THEN BugOrBroken
    ELSE IF ~IsSimpleConfigObject(fallback) THEN BugOrBroken
    ELSE
    LET all_keys == SetOrder(DictKeySet(self.value) \cup DictKeySet(fallback.value), h)
        first(key) == get(self, key)
        second(key) == get(fallback, key)
        kept == [key \in Range(all_keys) |-> merge_kept(first(key), second(key), h)]
        merged == [keys |-> all_keys, at |-> kept]
        changed == \E key \in Range(all_keys) : first(key) # kept[key]
        all_resolved == \A key \in Range(all_keys) :
                            resolve_status(kept[key]) # "unresolved"
        new_resolve_status == from_boolean(all_resolved)
        new_ignores_fallbacks == fallback.ignores_fallbacks
    IN  IF \E key \in Range(all_keys) : Raised(kept[key]) THEN BugOrBroken
        ELSE IF changed
        THEN SimpleConfigObject(merged, new_resolve_status, new_ignores_fallbacks)
        ELSE IF new_resolve_status # resolve_status(self)
                \/ new_ignores_fallbacks # self.ignores_fallbacks
        THEN new_copy(self, new_resolve_status, new_ignores_fallbacks)
        ELSE self

with_fallback(self, other, h) ==
    LET d == with_fallback_dispatch(self, other)
    IN  IF d = "self" THEN self
        ELSE IF d = "merged_with_the_unmergeable"
        THEN merged_with_the_unmergeable(self, <<self>>, other)
        ELSE IF d = "merged_with_object"
        THEN IF IsSimpleConfigObject(self)
             THEN merged_with_object(self, other, h)
             ELSE AbstractConfigValue_merged_with_object(self, <<self>>, other)
        ELSE merged_with_non_object(self, <<self>>, other)

\* empty(origin) and empty_missing build the object from the map alone: the
\* status parameter keeps its default, None.
empty == SimpleConfigObject(EmptyDict, "None", FALSE)
empty_instance == empty

\* A call on what a raised constructor never returned raises too.
receiver_with_fallback(self, other, h) ==
    IF Raised(self) THEN self
    ELSE IF Raised(other) THEN other
    ELSE with_fallback(self, other, h)

\* ---------------------------------------------------------------- equality
value_type(v) == IF IsAbstractConfigObject(v) THEN "OBJECT" ELSE v.kind

RECURSIVE unwrapped(_)
unwrapped(v) ==
    IF IsSimpleConfigObject(v)
    THEN [t |-> "map", m |-> [k \in DictKeySet(v.value) |-> unwrapped(v.value.at[k])]]
    ELSE IF v.kind = "scalar" THEN [t |-> "num", n |-> v.v]
    ELSE [t |-> "unresolved", u |-> v]

equals(a, b) == value_type(a) = value_type(b) /\ unwrapped(a) = unwrapped(b)

\* x != y between two config values.  No class of values defines __ne__ (or
\* __eq__, for the values that are not objects), so it is True unless x and y
\* are one instance; same is the set of keys under which the two objects
\* compared hold one and the same instance.
ne(key, same) == key \notin same

can_equal(other) == IsAbstractConfigObject(other)

map_equals(a, b, same) ==
    LET a_keys == keys(a)
        b_keys == keys(b)
    IN  IF a_keys # b_keys THEN FALSE
        ELSE \A i \in 1..Len(a_keys) : ~ne(a_keys[i], same)

SimpleConfigObject_eq(self, other, same) ==
    IF IsAbstractConfigObject(other)
    THEN can_equal(other) /\ map_equals(self, other, same)
    ELSE FALSE

\* -------------------------------------------------------------------- Path
\* A Path is its keys in order; the None remainder or parent is <<>>.
NoPath == <<>>
Path_first(p) == Head(p)
Path_remainder(p) == Tail(p)
Path_last(p) == p[Len(p)]
Path_parent(p) == SubSeq(p, 1, Len(p) - 1)
new_key(key) == <<key>>

\* --------------------------------------------------- Path as it is stored
\* Path is a namedtuple (first, remainder), remainder a Path or None.  A key is
\* a string, here the sequence of its characters.
Path(first, remainder) == [kind |-> "Path", first |-> first, remainder |-> remainder]

\* PathBuilder: the keys appended so far and the result once it was asked for.
PathBuilder == [kind |-> "PathBuilder", keys |-> <<>>, result |-> None]

check_can_append(pb) == IsNone(pb.result)

append_key(pb, key) ==
    IF ~check_can_append(pb) THEN BugOrBroken
    ELSE [pb EXCEPT !.keys = Append(@, key)]

RECURSIVE append_path_loop(_, _, _)
append_path_loop(pb, first, remainder) ==
    LET appended == [pb EXCEPT !.keys = Append(@, first)]
    IN  IF ~IsNone(remainder)
        THEN append_path_loop(appended, remainder.first, remainder.remainder)
        ELSE appended

append_path(pb, path) ==
    IF ~check_can_append(pb) THEN BugOrBroken
    ELSE append_path_loop(pb, path.first, path.remainder)

\* The loop of result(): pop() takes the keys from the end.
RECURSIVE result_loop(_, _)
result_loop(ks, remainder) ==
    IF Len(ks) = 0 THEN remainder
    ELSE result_loop(SubSeq(ks, 1, Len(ks) - 1), Path(ks[Len(ks)], remainder))

\* result(): the builder after the call and the Path returned.
PathBuilder_result(pb) ==
    IF IsNone(pb.result)
    THEN LET remainder == result_loop(pb.keys, None)
         IN  [pb |-> [pb EXCEPT !.keys = <<>>, !.result = remainder], r |-> remainder]
    ELSE [pb |-> pb, r |-> pb.result]

\* The loop of parent(): every key but the last goes to the builder.
RECURSIVE parent_loop(_, _)
parent_loop(pb, p) ==
    IF ~IsNone(p.remainder) THEN parent_loop(append_key(pb, p.first), p.remainder)
    ELSE pb

\* parent() that builds from the keys after the first.
Path_parent_of_dropping_first(self) ==
    IF IsNone(self.remainder) THEN None
    ELSE PathBuilder_result(parent_loop(PathBuilder, self.remainder)).r

Path_parent_of(self) ==
    IF IsNone(self.remainder) THEN None
    ELSE PathBuilder_result(parent_loop(PathBuilder, self)).r

RECURSIVE Path_last_of(_)
Path_last_of(self) ==
    IF ~IsNone(self.remainder) THEN Path_last_of(self.remainder) ELSE self.first

RECURSIVE Path_length(_)
Path_length(self) == IF IsNone(self.remainder) THEN 1 ELSE 1 + Path_length(self.remainder)

\* The loop of of_elements: every element goes to the builder.
RECURSIVE of_elements_loop(_, _)
of_elements_loop(pb, els) ==
    IF els = <<>> THEN pb ELSE of_elements_loop(append_key(pb, Head(els)), Tail(els))

of_elements(elements) ==
    IF Len(elements) = 0 THEN BugOrBroken
    ELSE Path(elements[1],
              IF Len(elements) > 1
              THEN PathBuilder_result(of_elements_loop(PathBuilder, elements)).r
              ELSE None)

RECURSIVE remove_from_front(_, _)
remove_from_front(p, count) ==
    IF ~IsNone(p) /\ count > 0 THEN remove_from_front(p.remainder, count - 1) ELSE p

\* None has no attribute first.
AttributeError == [kind |-> "AttributeError"]

\* The loop of sub_path.
RECURSIVE sub_path_loop(_, _, _)
sub_path_loop(pb, from_path, count) ==
    IF count > 0
    THEN IF IsNone(from_path) THEN AttributeError
         ELSE IF IsNone(from_path.remainder) THEN BugOrBroken
         ELSE sub_path_loop(append_key(pb, from_path.first), from_path.remainder, count - 1)
    ELSE PathBuilder_result(pb).r

sub_path(self, first_index, last_index) ==
    IF last_index < first_index THEN BugOrBroken
    ELSE sub_path_loop(PathBuilder, remove_from_front(self, first_index),
                       last_index - first_index)

\* Characters: unicode.isalpha() and unicode.isalnum() accept the letters and
\* digits of every script.
AsciiLetters == {"a"}
OtherLetters == {"é"}
AsciiDigits == {"1"}
Chars == AsciiLetters \cup OtherLetters \cup AsciiDigits \cup {"-", "_", ".", "\""}
isalpha(ch) == ch \in AsciiLetters \cup OtherLetters
isalnum(ch) == isalpha(ch) \/ ch \in AsciiDigits

\* json.dumps(s): quotes, with ", \ and every non-ASCII character escaped.
json_escape(ch) ==
    IF ch = "\"" THEN <<"\\", "\"">>
    ELSE IF ch = "\\" THEN <<"\\", "\\">>
    ELSE IF ch = "é" THEN <<"\\", "u", "0", "0", "e", "9">>
    ELSE <<ch>>

RECURSIVE json_escaped(_)
json_escaped(s) == IF s = <<>> THEN <<>> ELSE json_escape(Head(s)) \o json_escaped(Tail(s))

render_json_string(s) == <<"\"">> \o json_escaped(s) \o <<"\"">>

\* has_funky_chars without its test of the first character.
has_funky_chars_any_first(s) ==
    IF Len(s) = 0 THEN FALSE
    ELSE \E i \in 2..Len(s) : ~(isalnum(s[i]) \/ s[i] \in {"-", "_"})

has_funky_chars(s) ==
    IF Len(s) = 0 THEN FALSE
    ELSE IF ~isalpha(s[1]) THEN TRUE
    ELSE \E i \in 2..Len(s) : ~(isalnum(s[i]) \/ s[i] \in {"-", "_"})

\* __unicode__: render()
RECURSIVE unicode(_)
unicode(self) ==
    LET s == IF has_funky_chars(self.first) \/ Len(self.first) = 0
             THEN render_json_string(self.first)
             ELSE self.first
    IN  IF ~IsNone(self.remainder) THEN s \o <<".">> \o unicode(self.remainder)
        ELSE s

\* ----------------------------------------------------------------- pruning
RECURSIVE with_only_path_or_none(_, _)
with_only_path_or_none(self, path) ==
    IF ~IsSimpleConfigObject(self) THEN NotImplementedError
    ELSE
    LET key == Path_first(path)
        next == Path_remainder(path)
        v0 == get(self, key)
        v == IF next # NoPath
             THEN IF ~IsNone(v0) /\ IsAbstractConfigObject(v0)
                  THEN with_only_path_or_none(v0, next)
                  ELSE None
             ELSE v0
    IN  IF Raised(v) THEN v
        ELSE IF IsNone(v) THEN None
        ELSE SimpleConfigObject(SingletonDict(key, v), resolve_status(v),
                                self.ignores_fallbacks)

\* with_only_path that wraps an empty object where the path ends early.
RECURSIVE with_only_path_keeping_empty(_, _)
with_only_path_keeping_empty(self, path) ==
    LET key == Path_first(path)
        next == Path_remainder(path)
        v0 == get(self, key)
        v == IF next # NoPath
             THEN IF ~IsNone(v0) /\ IsSimpleConfigObject(v0)
                  THEN with_only_path_keeping_empty(v0, next)
                  ELSE None
             ELSE v0
    IN  IF IsNone(v)
        THEN SimpleConfigObject(EmptyDict, "resolved", self.ignores_fallbacks)
        ELSE SimpleConfigObject(SingletonDict(key, v), resolve_status(v),
                                self.ignores_fallbacks)

with_only_path(self, path) ==
    LET o == with_only_path_or_none(self, path)
    IN  IF ~IsNone(o) THEN o
        ELSE SimpleConfigObject(EmptyDict, "resolved", self.ignores_fallbacks)

\* without_path that removes the first key when it cannot descend below it.
RECURSIVE without_path_removing_blocked(_, _)
without_path_removing_blocked(self, path) ==
    LET key == Path_first(path)
        next == Path_remainder(path)
        v == get(self, key)
    IN  IF ~IsNone(v) /\ next # NoPath /\ IsSimpleConfigObject(v)
        THEN LET updated == DictPut(self.value, key, without_path_removing_blocked(v, next))
             IN  SimpleConfigObject(updated, from_values(DictValues(updated)),
                                    self.ignores_fallbacks)
        ELSE IF IsNone(v) THEN self
        ELSE LET smaller == [keys |-> SelectSeq(self.value.keys, LAMBDA k : k # key),
                             at |-> [k \in DictKeySet(self.value) \ {key} |->
                                        self.value.at[k]]]
             IN  SimpleConfigObject(smaller, from_values(DictValues(smaller)),
                                    self.ignores_fallbacks)

\* The branch without_path takes on the receiver: "descend" and "smaller"
\* build a new object, "self" returns the receiver.
without_path_branch(self, path) ==
    LET key == Path_first(path)
        next == Path_remainder(path)
        v == get(self, key)
    IN  IF ~IsNone(v) /\ next # NoPath /\ IsAbstractConfigObject(v) THEN "descend"
        ELSE IF next # NoPath \/ IsNone(v) THEN "self"
        ELSE "smaller"

RECURSIVE without_path(_, _)
without_path(self, path) ==
    IF ~IsSimpleConfigObject(self) THEN NotImplementedError
    ELSE
    LET key == Path_first(path)
        next == Path_remainder(path)
        v == get(self, key)
    IN  IF ~IsNone(v) /\ next # NoPath /\ IsAbstractConfigObject(v)
        THEN LET v2 == without_path(v, next)
                 updated == DictPut(self.value, key, v2)
             IN  IF Raised(v2) THEN v2
                 ELSE SimpleConfigObject(updated, from_values(DictValues(updated)),
                                         self.ignores_fallbacks)
        ELSE IF next # NoPath \/ IsNone(v) THEN self
        ELSE LET smaller == [keys |-> SelectSeq(self.value.keys, LAMBDA k : k # key),
                             at |-> [k \in DictKeySet(self.value) \ {key} |->
                                        self.value.at[k]]]
             IN  SimpleConfigObject(smaller, from_values(DictValues(smaller)),
                                    self.ignores_fallbacks)

with_key_value(self, key, v) ==
    IF IsNone(v) THEN BugOrBroken
    ELSE IF Raised(v) THEN v
    ELSE LET new_map == IF self.value.keys = <<>> THEN SingletonDict(key, v)
                        ELSE DictPut(self.value, key, v)
         IN  SimpleConfigObject(new_map, from_values(DictValues(new_map)),
                                self.ignores_fallbacks)

\* atKey builds its object with the two-argument constructor call: no status.
at_key(self, key) ==
    IF Raised(self) THEN self
    ELSE SimpleConfigObject(SingletonDict(key, self), "None", FALSE)

RECURSIVE at_path_loop(_, _)
at_path_loop(result, parent) ==
    IF parent = NoPath THEN result
    ELSE at_path_loop(at_key(result, Path_last(parent)), Path_parent(parent))

at_path(self, path) == at_path_loop(at_key(self, Path_last(path)), Path_parent(path))

RECURSIVE with_path_value(_, _, _)
with_path_value(self, path, v) ==
    IF ~IsSimpleConfigObject(self) THEN NotImplementedError
    ELSE
    LET key == Path_first(path)
        next == Path_remainder(path)
        child == get(self, key)
    IN  IF next = NoPath THEN with_key_value(self, key, v)
        ELSE IF IsAbstractConfigObject(child)
        THEN with_key_value(self, key, with_path_value(child, next, v))
        ELSE with_key_value(self, key, at_path(v, next))

RECURSIVE peek_path_without_context(_, _)
peek_path_without_context(self, path) ==
    LET next == Path_remainder(path)
        v == get(self, Path_first(path))
    IN  IF next = NoPath THEN v
        ELSE IF IsSimpleConfigObject(v) THEN peek_path_without_context(v, next)
        ELSE None

\* ------------------------------------------------------------------ modify
\* modifier[k] is what modifier.modify_child(k, value[k]) returns (None: remove).
RECURSIVE modify_changes(_, _, _, _)
modify_changes(self, modifier, i, changes) ==
    IF i > Len(keys(self)) THEN changes
    ELSE LET k == keys(self)[i]
             v == get(self, k)
             modified == modifier[k]
         IN  modify_changes(self, modifier, i + 1,
                 IF modified # v /\ ~IsNone(changes)
                 THEN [has |-> {k}, at |-> [x \in {k} |-> modified]]
                 ELSE changes)

modify(self, modifier) ==
    LET changes == modify_changes(self, modifier, 1, None)
    IN  IF IsNone(changes) THEN self
        ELSE LET new_value(k) == IF k \in changes.has THEN changes.at[k]
                                 ELSE get(self, k)
                 kept_keys == SelectSeq(keys(self), LAMBDA k : ~IsNone(new_value(k)))
                 modified == [keys |-> kept_keys,
                              at |-> [k \in Range(kept_keys) |-> new_value(k)]]
                 saw_unresolved == \E k \in Range(kept_keys) :
                                       resolve_status(new_value(k)) = "unresolved"
             IN  SimpleConfigObject(modified, from_boolean(~saw_unresolved),
                                    self.ignores_fallbacks)

\* ------------------------------------------------------ objects in memory
\* The same operations on objects that have an identity.  A memory holds the
\* dictionaries and the SimpleConfigObjects created so far; the `value` of an
\* object is the index of its dictionary and a child object is a reference.
\* Every operation gives the memory after it and what it returns.
Ref(i) == [kind |-> "ref", id |-> i]
IsRef(v) == v.kind = "ref"
EmptyMemory == [objs |-> <<>>, dicts |-> <<>>]
Out(M, r) == [mem |-> M, r |-> r]

\* A dict display: {}, {key: v}.
new_dict(M, d) == Out([M EXCEPT !.dicts = Append(@, d)], Len(M.dicts) + 1)

\* dict(value) handing back the dictionary it was given.
dict_same(M, value) == Out(M, value)

\* dict(value): a new dictionary with the entries of value.
dict(M, value) == new_dict(M, M.dicts[value])

\* d[key] = v
setitem(M, d, key, v) == [M EXCEPT !.dicts[d] = DictPut(@, key, v)]

mem_value(M, self) == M.dicts[M.objs[self.id].value]

mem_resolve_status(M, v) ==
    IF IsRef(v) THEN from_boolean(M.objs[v.id].resolved) ELSE resolve_status(v)

mem_ignores_fallbacks(M, v) ==
    IF IsRef(v) THEN M.objs[v.id].ignores_fallbacks ELSE ignores_fallbacks(v)

mem_from_values(M, values) ==
    IF \E v \in values : mem_resolve_status(M, v) = "unresolved"
    THEN "unresolved" ELSE "resolved"

mem_SimpleConfigObject(M, value, status, flag) ==
    IF status # mem_from_values(M, DictValues(M.dicts[value]))
    THEN Out(M, BugOrBroken)
    ELSE Out([M EXCEPT !.objs = Append(@, [value |-> value,
                                            resolved |-> (status = "resolved"),
                                            ignores_fallbacks |-> flag])],
             Ref(Len(M.objs) + 1))

mem_new_copy(M, self, status, flag) ==
    mem_SimpleConfigObject(M, M.objs[self.id].value, status, flag)

mem_with_fallbacks_ignored(M, self) ==
    IF IsRef(self)
    THEN IF M.objs[self.id].ignores_fallbacks THEN Out(M, self)
         ELSE mem_new_copy(M, self, mem_resolve_status(M, self), TRUE)
    ELSE Out(M, with_fallbacks_ignored(self))

RECURSIVE mem_with_only_path_or_none(_, _, _)
mem_with_only_path_or_none(M, self, path) ==
    LET key == Path_first(path)
        next == Path_remainder(path)
        v == DictGet(mem_value(M, self), key)
        below == IF next # NoPath
                 THEN IF ~IsNone(v) /\ IsRef(v)
                      THEN mem_with_only_path_or_none(M, v, next)
                      ELSE Out(M, None)
                 ELSE Out(M, v)
    IN  IF IsNone(below.r) THEN below
        ELSE LET d == new_dict(below.mem, SingletonDict(key, below.r))
             IN  mem_SimpleConfigObject(d.mem, d.r, mem_resolve_status(d.mem, below.r),
                                        M.objs[self.id].ignores_fallbacks)

mem_with_only_path(M, self, path) ==
    LET o == mem_with_only_path_or_none(M, self, path)
    IN  IF ~IsNone(o.r) THEN o
        ELSE LET d == new_dict(o.mem, EmptyDict)
             IN  mem_SimpleConfigObject(d.mem, d.r, "resolved",
                                        M.objs[self.id].ignores_fallbacks)

RECURSIVE mem_without_path(_, _, _)
mem_without_path(M, self, path) ==
    LET key == Path_first(path)
        next == Path_remainder(path)
        value == mem_value(M, self)
        v == DictGet(value, key)
    IN  IF ~IsNone(v) /\ next # NoPath /\ IsRef(v)
        THEN LET below == mem_without_path(M, v, next)
                 updated == dict(below.mem, M.objs[self.id].value)
                 stored == setitem(updated.mem, updated.r, key, below.r)
             IN  mem_SimpleConfigObject(stored, updated.r,
                     mem_from_values(stored, DictValues(stored.dicts[updated.r])),
                     M.objs[self.id].ignores_fallbacks)
        ELSE IF next # NoPath \/ IsNone(v) THEN Out(M, self)
        ELSE LET smaller == new_dict(M,
                     [keys |-> SelectSeq(value.keys, LAMBDA k : k # key),
                      at |-> [k \in DictKeySet(value) \ {key} |-> value.at[k]]])
             IN  mem_SimpleConfigObject(smaller.mem, smaller.r,
                     mem_from_values(smaller.mem, DictValues(smaller.mem.dicts[smaller.r])),
                     M.objs[self.id].ignores_fallbacks)

mem_with_key_value(M, self, key, v) ==
    IF IsNone(v) THEN Out(M, BugOrBroken)
    ELSE LET new_map ==
                 IF mem_value(M, self).keys = <<>>
                 THEN new_dict(M, SingletonDict(key, v))
                 ELSE LET copy == dict(M, M.objs[self.id].value)
                      IN  Out(setitem(copy.mem, copy.r, key, v), copy.r)
         IN  mem_SimpleConfigObject(new_map.mem, new_map.r,
                 mem_from_values(new_map.mem, DictValues(new_map.mem.dicts[new_map.r])),
                 M.objs[self.id].ignores_fallbacks)

mem_at_key(M, self, key) ==
    LET m == new_dict(M, SingletonDict(key, self))
    IN  mem_SimpleConfigObject(m.mem, m.r, "None", FALSE)

RECURSIVE mem_at_path_loop(_, _)
mem_at_path_loop(result, parent) ==
    IF Raised(result.r) \/ parent = NoPath THEN result
    ELSE mem_at_path_loop(mem_at_key(result.mem, result.r, Path_last(parent)),
                          Path_parent(parent))

mem_at_path(M, self, path) ==
    mem_at_path_loop(mem_at_key(M, self, Path_last(path)), Path_parent(path))

RECURSIVE mem_with_path_value(_, _, _, _)
mem_with_path_value(M, self, path, v) ==
    LET key == Path_first(path)
        next == Path_remainder(path)
        child == DictGet(mem_value(M, self), key)
    IN  IF next = NoPath THEN mem_with_key_value(M, self, key, v)
        ELSE LET subtree == IF IsRef(child) THEN mem_with_path_value(M, child, next, v)
                            ELSE mem_at_path(M, v, next)
             IN  IF Raised(subtree.r) THEN subtree
                 ELSE mem_with_key_value(subtree.mem, self, key, subtree.r)

mem_modify(M, self, modifier) ==
    LET value == mem_value(M, self)
        as_object == [value |-> value]
        changes == modify_changes(as_object, modifier, 1, None)
    IN  IF IsNone(changes) THEN Out(M, self)
        ELSE LET new_value(k) == IF k \in changes.has THEN changes.at[k]
                                 ELSE DictGet(value, k)
                 kept_keys == SelectSeq(value.keys, LAMBDA k : ~IsNone(new_value(k)))
                 modified == new_dict(M, [keys |-> kept_keys,
                                          at |-> [k \in Range(kept_keys) |-> new_value(k)]])
                 saw_unresolved == \E k \in Range(kept_keys) :
                                       mem_resolve_status(M, new_value(k)) = "unresolved"
             IN  mem_SimpleConfigObject(modified.mem, modified.r,
                                        from_boolean(~saw_unresolved),
                                        M.objs[self.id].ignores_fallbacks)

mem_construct_delayed_merge(self, stack) ==
    [kind |-> IF IsRef(self) \/ IsAbstractConfigObject(self) THEN "delayedobj"
              ELSE "delayed",
     stack |-> stack]

mem_merged_with_non_object(M, self, fallback) ==
    IF mem_ignores_fallbacks(M, self) THEN Out(M, BugOrBroken)
    ELSE IF mem_resolve_status(M, self) = "resolved"
    THEN mem_with_fallbacks_ignored(M, self)
    ELSE Out(M, mem_construct_delayed_merge(self, <<self, fallback>>))

RECURSIVE mem_with_fallback(_, _, _, _)
RECURSIVE mem_merge_keys(_, _, _, _, _, _, _)

\* The loop of merged_with_object over all_keys; st is (changed, all_resolved).
mem_merge_keys(M, self, fallback, all_keys, merged, st, h) ==
    IF all_keys = <<>> THEN Out(M, st)
    ELSE LET key == Head(all_keys)
             first == DictGet(mem_value(M, self), key)
             second == DictGet(mem_value(M, fallback), key)
             kept == IF IsNone(first) THEN Out(M, second)
                     ELSE IF IsNone(second) THEN Out(M, first)
                     ELSE mem_with_fallback(M, first, second, h)
         IN  IF Raised(kept.r) THEN kept
             ELSE mem_merge_keys(setitem(kept.mem, merged, key, kept.r),
                      self, fallback, Tail(all_keys), merged,
                      [kind |-> "loop", changed |-> st.changed \/ first # kept.r,
                       all_resolved |-> st.all_resolved
                           /\ mem_resolve_status(kept.mem, kept.r) # "unresolved"],
                      h)

mem_merged_with_object(M, self, fallback, h) ==
    IF mem_ignores_fallbacks(M, self) THEN Out(M, BugOrBroken)
    ELSE IF ~IsRef(fallback) THEN Out(M, BugOrBroken)
    ELSE
    LET merged == new_dict(M, EmptyDict)
        all_keys == SetOrder(DictKeySet(mem_value(M, self))
                                \cup DictKeySet(mem_value(M, fallback)), h)
        loop == mem_merge_keys(merged.mem, self, fallback, all_keys, merged.r,
                               [kind |-> "loop", changed |-> FALSE, all_resolved |-> TRUE], h)
        new_resolve_status == from_boolean(loop.r.all_resolved)
        new_ignores_fallbacks == M.objs[fallback.id].ignores_fallbacks
    IN  IF Raised(loop.r) THEN loop
        ELSE IF loop.r.changed
        THEN mem_SimpleConfigObject(loop.mem, merged.r, new_resolve_status,
                                    new_ignores_fallbacks)
        ELSE IF new_resolve_status # mem_resolve_status(M, self)
                \/ new_ignores_fallbacks # M.objs[self.id].ignores_fallbacks
        THEN mem_new_copy(loop.mem, self, new_resolve_status, new_ignores_fallbacks)
        ELSE Out(loop.mem, self)

mem_with_fallback(M, self, other, h) ==
    IF mem_ignores_fallbacks(M, self) THEN Out(M, self)
    ELSE IF IsUnmergeable(other)
    THEN Out(M, mem_construct_delayed_merge(self, <<self>> \o unmerged_values(other)))
    ELSE IF IsRef(other)
    THEN IF IsRef(self) THEN mem_merged_with_object(M, self, other, h)
         ELSE IF IsAbstractConfigObject(self) THEN Out(M, BugOrBroken)
         ELSE mem_merged_with_non_object(M, self, other)
    ELSE mem_merged_with_non_object(M, self, other)

\* The value a reference stands for: the object with its dictionary and
\* children read out of the memory.
RECURSIVE Deref(_, _)
Deref(M, v) ==
    IF IsRef(v)
    THEN LET d == mem_value(M, v)
         IN  [kind |-> "object",
              value |-> [keys |-> d.keys,
                         at |-> [k \in DictKeySet(d) |-> Deref(M, d.at[k])]],
              resolved |-> M.objs[v.id].resolved,
              ignores_fallbacks |-> M.objs[v.id].ignores_fallbacks]
    ELSE IF v.kind \in {"delayed", "delayedobj"}
    THEN [v EXCEPT !.stack = [i \in 1..Len(v.stack) |-> Deref(M, v.stack[i])]]
    ELSE v

\* ------------------------------------------------------------- input trees
\* The object the parser builds from a dict: status from the children, not
\* ignoring fallbacks.
Obj(d) == SimpleConfigObject(d, from_values(DictValues(d)), FALSE)

DictPrepend(k, v, rest) ==
    [keys |-> <<k>> \o rest.keys,
     at |-> [x \in {k} \cup DictKeySet(rest) |-> IF x = k THEN v ELSE rest.at[x]]]

\* Every dict over avail, in every insertion order, of exactly n edges, its
\* children taken from T[m], the values of exactly m edges, m < n.
RECURSIVE DictsOfSize(_, _, _)
DictsOfSize(T, avail, n) ==
    IF n = 0 THEN {EmptyDict}
    ELSE UNION {UNION {UNION {{DictPrepend(k, cv, rest) :
                                  rest \in DictsOfSize(T, avail \ {k}, n - 1 - m)} :
                              cv \in T[m]} :
                       m \in 0..(n - 1)} :
                k \in avail}

\* T[m], for m in 0..n: the leaves (no edge) and every object built from them.
RECURSIVE TreesBySize(_, _)
TreesBySize(leaves, n) ==
    IF n = 0 THEN [m \in {0} |-> leaves \cup {Obj(EmptyDict)}]
    ELSE LET T == TreesBySize(leaves, n - 1)
             new == {Obj(d) : d \in DictsOfSize(T, Keys, n)}
         IN  [m \in 0..n |-> IF m = n THEN new ELSE T[m]]

\* The orders in which a set of keys can be iterated.
HashOrders == {<<"a", "b">>, <<"b", "a">>}

PathsOfLen[n \in 1..(MaxPathLen + 1)] ==
    IF n = 1 THEN {<<k>> : k \in Keys}
    ELSE {<<k>> \o p : k \in Keys, p \in PathsOfLen[n - 1]}
Paths == UNION {PathsOfLen[n] : n \in 1..MaxPathLen}

\* ------------------------------------------------------------------ state
VARIABLES
    L, R,       \* SpecMerge: the receiver and the fallback of one merge
    res,        \* SpecMerge: what the call made on them returned
    a, b, c,    \* SpecChain: the three values of a fallback chain
    chain,      \* SpecChain: the merges of the chain computed so far
    obj,        \* Spec: the object the next operation is called on
    last,       \* Spec: the last operation and what it returned
    nops,       \* Spec: operations done
    path,       \* SpecPrune: the path given (the object is L)
    h,          \* the iteration order of set(...) in this process
    pc,
    heap,       \* SpecMemory: the dictionaries and objects created so far
    same,       \* SpecEquals: the keys under which L and R hold one instance
    given,      \* SpecTokens: the characters given to tokenize
    it,         \* SpecTokens: the token iterator
    yielded     \* SpecTokens: the tokens next() has returned
vars == <<L, R, res, a, b, c, chain, obj, last, nops, path, h, pc, heap, same, given, it, yielded>>

\* ------------------------------------------------ SpecMerge: one merge call
LLeaves == {ConfigInt(1), ConfigSubstitution(1)}
RLeaves == {ConfigInt(2), ConfigSubstitution(2),
            construct_delayed_merge(ConfigSubstitution(2),
                                    <<ConfigSubstitution(2), ConfigInt(2)>>)}
LTrees == TreesBySize(LLeaves, MaxEdges)
RTrees == TreesBySize(RLeaves, MaxEdges)

\* A tree as built, or (an object) after with_fallbacks_ignored.
Flagged(v) == IF IsSimpleConfigObject(v) /\ v.resolved
              THEN {v, with_fallbacks_ignored(v)} ELSE {v}

\* The merge the documentation works out, over keys of its own.
ExampleOrder == <<"a", "w", "x", "y", "z">>
ExampleDict(ks, vs) ==
    [keys |-> ks, at |-> [k \in Range(ks) |-> vs[CHOOSE i \in 1..Len(ks) : ks[i] = k]]]
ExampleBase ==
    Obj(ExampleDict(<<"a">>,
        <<Obj(ExampleDict(<<"x", "y">>, <<ConfigInt(1), ConfigInt(2)>>))>>))
ExampleFallback ==
    Obj(ExampleDict(<<"a", "w">>,
        <<Obj(ExampleDict(<<"y", "z">>, <<ConfigInt(9), ConfigInt(3)>>)), ConfigInt(4)>>))
ExampleMerged ==
    Obj(ExampleDict(<<"a", "w">>,
        <<Obj(ExampleDict(<<"x", "y", "z">>, <<ConfigInt(1), ConfigInt(2), ConfigInt(3)>>)),
          ConfigInt(4)>>))

InitMerge ==
    /\ given = <<>> /\ it = None /\ yielded = <<>>
    /\ \/ /\ \E n \in 0..MaxEdges : \E m \in 0..(MaxEdges - n) :
              \E x \in LTrees[n] : \E y \in RTrees[m] :
                  /\ L \in Flagged(x)
                  /\ R \in Flagged(y)
          /\ h \in HashOrders
          /\ pc = "init"
       \/ /\ L = ExampleBase /\ R = ExampleFallback
          /\ h = ExampleOrder
          /\ pc = "example"
    /\ res = None
    /\ a = None /\ b = None /\ c = None /\ chain = None
    /\ obj = None /\ last = None /\ heap = EmptyMemory /\ same = {} /\ nops = 0 /\ path = NoPath

Call(op, dispatch, v) == [op |-> op, dispatch |-> dispatch, v |-> v]

WithFallback ==
    /\ pc \in {"init", "example"}
    /\ res' = Call("with_fallback", with_fallback_dispatch(L, R), with_fallback(L, R, h))
    /\ pc' = IF pc = "init" THEN "done" ELSE "example done"
    /\ UNCHANGED <<given, it, yielded, same, heap, L, R, a, b, c, chain, obj, last, nops, path, h>>

MergedWithObject ==
    /\ pc = "init"
    /\ IsSimpleConfigObject(R)
    /\ res' = Call("merged_with_object", "merged_with_object",
                   IF IsSimpleConfigObject(L) THEN merged_with_object(L, R, h)
                   ELSE AbstractConfigValue_merged_with_object(L, <<L>>, R))
    /\ pc' = "done"
    /\ UNCHANGED <<given, it, yielded, same, heap, L, R, a, b, c, chain, obj, last, nops, path, h>>

MergedWithNonObject ==
    /\ pc = "init"
    /\ ~IsAbstractConfigObject(R) /\ ~IsUnmergeable(R)
    /\ res' = Call("merged_with_non_object", "merged_with_non_object",
                   merged_with_non_object(L, <<L>>, R))
    /\ pc' = "done"
    /\ UNCHANGED <<given, it, yielded, same, heap, L, R, a, b, c, chain, obj, last, nops, path, h>>

MergedWithTheUnmergeable ==
    /\ pc = "init"
    /\ IsUnmergeable(R)
    /\ res' = Call("merged_with_the_unmergeable", "merged_with_the_unmergeable",
                   merged_with_the_unmergeable(L, <<L>>, R))
    /\ pc' = "done"
    /\ UNCHANGED <<given, it, yielded, same, heap, L, R, a, b, c, chain, obj, last, nops, path, h>>

\* empty().with_fallback(L) and L.with_fallback(empty())
EmptyWithFallback ==
    /\ pc = "init"
    /\ IsSimpleConfigObject(L)
    /\ res' = Call("empty.with_fallback", "", receiver_with_fallback(empty, L, h))
    /\ pc' = "done"
    /\ UNCHANGED <<given, it, yielded, same, heap, L, R, a, b, c, chain, obj, last, nops, path, h>>

WithFallbackEmpty ==
    /\ pc = "init"
    /\ IsSimpleConfigObject(L)
    /\ res' = Call("with_fallback.empty", "", receiver_with_fallback(L, empty, h))
    /\ pc' = "done"
    /\ UNCHANGED <<given, it, yielded, same, heap, L, R, a, b, c, chain, obj, last, nops, path, h>>

NextMerge ==
    \/ WithFallback
    \/ MergedWithObject
    \/ MergedWithNonObject
    \/ MergedWithTheUnmergeable
    \/ EmptyWithFallback
    \/ WithFallbackEmpty

SpecMerge == InitMerge /\ [][NextMerge]_vars

Merged == pc = "done" /\ res.op = "with_fallback"
BothObjects == IsSimpleConfigObject(L) /\ IsSimpleConfigObject(R)

\* The merge of two unwrapped values, written from the rule alone: maps merge
\* key by key, anything else on the left shadows the right.
RECURSIVE MergedMap(_, _)
MergedMap(l, r) ==
    IF l.t = "map" /\ r.t = "map"
    THEN [t |-> "map",
          m |-> [k \in DOMAIN l.m \cup DOMAIN r.m |->
                    IF k \notin DOMAIN r.m THEN l.m[k]
                    ELSE IF k \notin DOMAIN l.m THEN r.m[k]
                    ELSE MergedMap(l.m[k], r.m[k])]]
    ELSE l

C5_IgnoringFallbacks ==
    (pc = "done" /\ res.op \notin {"empty.with_fallback", "with_fallback.empty"}
        /\ ignores_fallbacks(L)) =>
        IF res.op = "with_fallback"
        THEN res.dispatch = "self" /\ res.v = L
        ELSE res.v = BugOrBroken

C5_Witness ==
    /\ Merged /\ IsSimpleConfigObject(L) /\ ignores_fallbacks(L)
    /\ DictKeySet(L.value) # {}
    /\ IsSimpleConfigObject(R) /\ DictKeySet(R.value) \ DictKeySet(L.value) # {}
    /\ res.v = L

C5_WitnessDirect ==
    /\ pc = "done" /\ res.op = "merged_with_the_unmergeable"
    /\ ignores_fallbacks(L) /\ res.v = BugOrBroken

\* C7 as stated, with empty the object empty() returns: for every resolved
\* object x, empty.with_fallback(x), x.with_fallback(empty) and x are equal.
C7_MergeIdentity ==
    (pc = "done" /\ res.op \in {"empty.with_fallback", "with_fallback.empty"}
        /\ L.resolved) =>
        ~Raised(res.v) /\ equals(res.v, L)

IsDelayedMergeOf(v, self, stack) ==
    v = [kind |-> IF IsAbstractConfigObject(self) THEN "delayedobj" ELSE "delayed",
         stack |-> stack]

C8_WitnessKeywise ==
    /\ Merged /\ resolve_status(L) = "unresolved" /\ BothObjects /\ R.resolved
    /\ DictKeySet(R.value) \ DictKeySet(L.value) # {}
    /\ IsSimpleConfigObject(res.v)

\* C9 as stated: the merged object lists L's keys in L's order, then the keys
\* of R alone in R's order.
C9_KeyOrder ==
    (Merged /\ BothObjects /\ ~ignores_fallbacks(L) /\ IsSimpleConfigObject(res.v)) =>
        keys(res.v) = keys(L) \o SelectSeq(keys(R), LAMBDA k : k \notin DictKeySet(L.value))

\* ------------------------------------------- SpecChain: a chain of fallbacks
ATrees == TreesBySize({ConfigInt(1)}, ChainEdges)
BTrees == TreesBySize({ConfigInt(2)}, ChainEdges)
CTrees == TreesBySize({ConfigInt(3)}, ChainEdges)

InitChain ==
    /\ given = <<>> /\ it = None /\ yielded = <<>>
    /\ \E n \in 0..ChainEdges : \E m \in 0..(ChainEdges - n) :
       \E k \in 0..(ChainEdges - n - m) :
           a \in ATrees[n] /\ b \in BTrees[m] /\ c \in CTrees[k]
    /\ chain = None
    /\ L = None /\ R = None /\ res = None
    /\ obj = None /\ last = None /\ heap = EmptyMemory /\ same = {} /\ nops = 0 /\ path = NoPath
    /\ h \in HashOrders
    /\ pc = "init"

\* a.with_fallback(b) and b.with_fallback(c)
MergeInner ==
    /\ pc = "init"
    /\ chain' = [ab |-> with_fallback(a, b, h), bc |-> with_fallback(b, c, h),
                 ab_c |-> None, a_bc |-> None]
    /\ pc' = "inner"
    /\ UNCHANGED <<given, it, yielded, same, heap, L, R, res, a, b, c, obj, last, nops, path, h>>

\* (a.with_fallback(b)).with_fallback(c) and a.with_fallback(b.with_fallback(c))
MergeOuter ==
    /\ pc = "inner"
    /\ chain' = [chain EXCEPT !.ab_c = with_fallback(chain.ab, c, h),
                              !.a_bc = with_fallback(a, chain.bc, h)]
    /\ pc' = "done"
    /\ UNCHANGED <<given, it, yielded, same, heap, L, R, res, a, b, c, obj, last, nops, path, h>>

NextChain == MergeInner \/ MergeOuter

SpecChain == InitChain /\ [][NextChain]_vars

ChainDone == pc = "done"

C4_WitnessKeywise ==
    /\ ChainDone
    /\ IsSimpleConfigObject(a) /\ IsSimpleConfigObject(b) /\ IsSimpleConfigObject(c)
    /\ \E k \in Keys :
          /\ IsSimpleConfigObject(get(a, k)) /\ get(b, k).kind = "scalar"
          /\ IsSimpleConfigObject(get(c, k)) /\ get(c, k).value.keys # <<>>
          /\ equals(get(chain.ab_c, k), get(a, k))

\* --------------------------------------- SpecPrune: one pruning of an object
PTrees == TreesBySize(LLeaves, PruneEdges)

InitPrune ==
    /\ given = <<>> /\ it = None /\ yielded = <<>>
    /\ \E n \in 0..PruneEdges : \E x \in PTrees[n] :
           IsSimpleConfigObject(x) /\ L \in Flagged(x)
    /\ path \in Paths
    /\ R = None /\ res = None
    /\ a = None /\ b = None /\ c = None /\ chain = None
    /\ obj = None /\ last = None /\ heap = EmptyMemory /\ same = {} /\ nops = 0
    /\ h \in HashOrders
    /\ pc = "init"

WithOnlyPath ==
    /\ pc = "init"
    /\ res' = Call("with_only_path", "", with_only_path(L, path))
    /\ pc' = "done"
    /\ UNCHANGED <<given, it, yielded, same, heap, L, R, a, b, c, chain, obj, last, nops, path, h>>

WithoutPath ==
    /\ pc = "init"
    /\ res' = Call("without_path", without_path_branch(L, path), without_path(L, path))
    /\ pc' = "done"
    /\ UNCHANGED <<given, it, yielded, same, heap, L, R, a, b, c, chain, obj, last, nops, path, h>>

\* The values with_path_value is given to store.
PruneValues == TreesBySize(RLeaves, 0)[0]

WithPathValue ==
    /\ pc = "init"
    /\ \E v \in PruneValues :
          /\ R' = v
          /\ res' = Call("with_path_value", "", with_path_value(L, path, v))
    /\ pc' = "done"
    /\ UNCHANGED <<given, it, yielded, same, heap, L, a, b, c, chain, obj, last, nops, path, h>>

NextPrune ==
    \/ WithOnlyPath
    \/ WithoutPath
    \/ WithPathValue

SpecPrune == InitPrune /\ [][NextPrune]_vars

Pruned == pc = "done" /\ res.op = "with_only_path"

\* p leads to a value in o: every proper prefix of p is an object that has the
\* next key.
RECURSIVE LeadsToValue(_, _)
LeadsToValue(o, p) ==
    /\ IsSimpleConfigObject(o)
    /\ Path_first(p) \in DictKeySet(o.value)
    /\ Len(p) > 1 => LeadsToValue(o.value.at[Path_first(p)], Path_remainder(p))

RECURSIVE ValueAt(_, _)
ValueAt(o, p) ==
    IF Len(p) = 1 THEN o.value.at[p[1]] ELSE ValueAt(o.value.at[p[1]], Tail(p))

\* The unwrapped chain of single-key maps along p that ends in u.
RECURSIVE ChainAlong(_, _)
ChainAlong(p, u) ==
    [t |-> "map",
     m |-> [k \in {p[1]} |-> IF Len(p) = 1 THEN u ELSE ChainAlong(Tail(p), u)]]

\* C10: with_only_path(p) on o gives, when p leads to a value in o, nothing
\* but the chain of single-key objects along p down to that value, and p looks
\* up the same value in the result as in o; otherwise an object with no keys,
\* no emptied intermediate object being kept.
C10_WithOnlyPath ==
    Pruned =>
        IF LeadsToValue(L, path)
        THEN /\ IsSimpleConfigObject(res.v)
             /\ unwrapped(res.v) = ChainAlong(path, unwrapped(ValueAt(L, path)))
             /\ peek_path_without_context(res.v, path) = peek_path_without_context(L, path)
             /\ peek_path_without_context(res.v, path) = ValueAt(L, path)
        ELSE /\ IsSimpleConfigObject(res.v)
             /\ keys(res.v) = <<>>

C10_Witness ==
    /\ Pruned /\ LeadsToValue(L, path) /\ Len(path) = 2
    /\ Len(keys(L)) = 2
    /\ Len(keys(res.v)) = 1
    /\ peek_path_without_context(res.v, path) = ConfigInt(1)

C10_WitnessAbsent ==
    /\ Pruned /\ Len(path) = 3
    /\ LeadsToValue(L, Path_parent(path)) /\ ~LeadsToValue(L, path)
    /\ keys(res.v) = <<>>

Removed == pc = "done" /\ res.op = "without_path"

IsPrefix(p, q) == Len(p) <= Len(q) /\ SubSeq(q, 1, Len(p)) = p

\* The value q leads to in o, None when it leads to none.
Lookup(o, q) == IF LeadsToValue(o, q) THEN ValueAt(o, q) ELSE None

\* C11 as stated: without_path(p) gives an object without p in which every
\* path that is not p or an extension of p has the value it has in the
\* receiver, and gives the receiver itself when p is absent from it.
C11_Stated ==
    Removed =>
        /\ IsSimpleConfigObject(res.v)
        /\ ~LeadsToValue(res.v, path)
        /\ \A q \in Paths : ~IsPrefix(path, q) => Lookup(res.v, q) = Lookup(L, q)
        /\ ~LeadsToValue(L, path) => res.dispatch = "self"

\* C11, amended: without_path(p) gives an object without p in which every
\* path that is neither a prefix nor an extension of p has the value it has
\* in the receiver, and each object on the way to p has lost the key on p
\* only; when p is absent from the receiver the result has the receiver's map,
\* status and flag; the receiver itself is what is returned exactly when the
\* first key of p is missing or, with more keys to follow, leads to a
\* non-object.
C11_WithoutPath ==
    Removed =>
        /\ IsSimpleConfigObject(res.v)
        /\ ~LeadsToValue(res.v, path)
        /\ \A q \in Paths :
              (~IsPrefix(path, q) /\ ~IsPrefix(q, path)) =>
                  Lookup(res.v, q) = Lookup(L, q)
        /\ \A q \in Paths :
              (IsPrefix(q, path) /\ q # path /\ LeadsToValue(L, path)) =>
                  /\ IsSimpleConfigObject(Lookup(res.v, q))
                  /\ keys(Lookup(res.v, q)) =
                        SelectSeq(keys(Lookup(L, q)),
                                  LAMBDA k : Len(q) + 1 < Len(path) \/ k # path[Len(q) + 1])
        /\ LeadsToValue(L, path) =>
              keys(res.v) = SelectSeq(keys(L), LAMBDA k : Len(path) > 1 \/ k # path[1])
        /\ ~LeadsToValue(L, path) => res.v = L
        /\ res.dispatch = "self" <=>
              \/ Path_first(path) \notin DictKeySet(L.value)
              \/ Len(path) > 1 /\ ~IsSimpleConfigObject(get(L, Path_first(path)))

C11_Witness ==
    /\ Removed /\ Len(path) = 2 /\ LeadsToValue(L, path)
    /\ Len(keys(L)) = 2
    /\ Len(keys(Lookup(L, Path_parent(path)))) = 1
    /\ keys(Lookup(res.v, Path_parent(path))) = <<>>
    /\ Len(keys(res.v)) = 2

C11_WitnessBlocked ==
    /\ Removed /\ Len(path) = 2
    /\ get(L, Path_first(path)) = ConfigInt(1)
    /\ res.dispatch = "self" /\ res.v = L

Put == pc = "done" /\ res.op = "with_path_value"

\* The value at q in o, o itself for the path with no keys.
At(o, q) == IF q = <<>> THEN o ELSE Lookup(o, q)

ProperPrefixes(p) == {SubSeq(p, 1, n) : n \in 0..(Len(p) - 1)}

\* C12: with_path_value(p, v) gives an object in which p looks up v; every
\* object on the way to p keeps its other keys unchanged; the first value on
\* the way that is missing or not an object is replaced by a fresh chain of
\* single-key objects that leads to v.
C12_PathValue ==
    Put =>
        /\ IsSimpleConfigObject(res.v)
        /\ Lookup(res.v, path) = R
        /\ \A q \in ProperPrefixes(path) :
              IsSimpleConfigObject(At(L, q)) =>
                  \A k \in DictKeySet(At(L, q).value) \ {path[Len(q) + 1]} :
                      Lookup(res.v, q \o <<k>>) = get(At(L, q), k)
        /\ \A q \in ProperPrefixes(path) \ {<<>>} :
              (IsSimpleConfigObject(At(L, Path_parent(q))) /\ ~IsSimpleConfigObject(At(L, q))) =>
                  unwrapped(Lookup(res.v, q)) =
                      ChainAlong(SubSeq(path, Len(q) + 1, Len(path)), unwrapped(R))

\* ------------------------------------ Spec: a sequence of object operations
STrees == TreesBySize(LLeaves, StartEdges)
StartObjects == {x \in UNION {STrees[n] : n \in 0..StartEdges} : IsSimpleConfigObject(x)}
Statuses == {"resolved", "unresolved", "None"}

\* What an operation is given: a value to store, a fallback to merge.
ArgTrees == TreesBySize(RLeaves, 1)
PutValues == ArgTrees[0]
FallbackValues == UNION {Flagged(x) : x \in ArgTrees[0] \cup ArgTrees[1]}
ModifiedValues(v) == {v, None, ConfigSubstitution(2)}

Init ==
    /\ given = <<>> /\ it = None /\ yielded = <<>>
    /\ obj \in StartObjects
    /\ last = None /\ heap = EmptyMemory /\ same = {}
    /\ nops = 0
    /\ h \in HashOrders
    /\ L = None /\ R = None /\ res = None
    /\ a = None /\ b = None /\ c = None /\ chain = None
    /\ path = NoPath
    /\ pc = "init"

Op(op, r, arg, status) ==
    /\ nops < MaxOps
    /\ last' = [kind |-> "call", op |-> op, res |-> r, arg |-> arg, status |-> status]
    /\ obj' = IF IsSimpleConfigObject(r) THEN r ELSE obj
    /\ nops' = nops + 1
    /\ UNCHANGED <<given, it, yielded, same, heap, L, R, res, a, b, c, chain, path, h, pc>>

Construct ==
    \E o \in StartObjects, status \in Statuses :
        Op("SimpleConfigObject", SimpleConfigObject(o.value, status, FALSE),
           o.value, status)

DoWithOnlyPath ==
    \E p \in Paths : Op("with_only_path", with_only_path(obj, p), None, "")

DoWithoutPath ==
    \E p \in Paths : Op("without_path", without_path(obj, p), None, "")

DoWithKeyValue ==
    \E k \in Keys, v \in PutValues :
        Op("with_key_value", with_key_value(obj, k, v), None, "")

DoWithPathValue ==
    \E p \in Paths, v \in PutValues :
        Op("with_path_value", with_path_value(obj, p, v), None, "")

DoWithFallback ==
    \E v \in FallbackValues : Op("with_fallback", with_fallback(obj, v, h), None, "")

DoWithFallbacksIgnored ==
    Op("with_fallbacks_ignored", with_fallbacks_ignored(obj), None, "")

DoModify ==
    \E modifier \in [DictKeySet(obj.value) -> UNION {ModifiedValues(v) : v \in DictValues(obj.value)}] :
        /\ \A k \in DictKeySet(obj.value) : modifier[k] \in ModifiedValues(get(obj, k))
        /\ Op("modify", modify(obj, modifier), None, "")

Next ==
    \/ Construct
    \/ DoWithOnlyPath
    \/ DoWithoutPath
    \/ DoWithKeyValue
    \/ DoWithPathValue
    \/ DoWithFallback
    \/ DoWithFallbacksIgnored
    \/ DoModify

Spec == Init /\ [][Next]_vars

ChildrenOf(o) == {o.value.at[k] : k \in DictKeySet(o.value)}

\* Every SimpleConfigObject of a value: itself and its descendants.
RECURSIVE ObjectsOf(_)
ObjectsOf(v) ==
    IF IsSimpleConfigObject(v)
    THEN {v} \cup UNION {ObjectsOf(x) : x \in ChildrenOf(v)}
    ELSE {}

\* Every value of a value: itself and, for an object, those of its children.
RECURSIVE ValuesOf(_)
ValuesOf(v) ==
    IF IsSimpleConfigObject(v)
    THEN {v} \cup UNION {ValuesOf(x) : x \in ChildrenOf(v)}
    ELSE IF IsNone(v) \/ Raised(v) THEN {}
    ELSE {v}

Obtained == ObjectsOf(obj) \cup (IF IsNone(last) THEN {} ELSE ObjectsOf(last.res))
Reached == ValuesOf(obj) \cup (IF IsNone(last) THEN {} ELSE ValuesOf(last.res))

AllChildrenResolved(children) == \A x \in children : resolve_status(x) = "resolved"

\* C1: every SimpleConfigObject obtained from the constructor or from a
\* sequence of with_only_path, without_path, with_key_value, with_path_value,
\* merged_with_object and modify is resolved if and only if each of its
\* children is (so without children it is resolved), and the constructor
\* raises BugOrBroken exactly when the declared status disagrees with the
\* children.
C1_ResolvedIffChildren ==
    /\ \A o \in Obtained :
          resolve_status(o) = "resolved" <=> AllChildrenResolved(ChildrenOf(o))
    /\ (~IsNone(last) /\ last.op = "SimpleConfigObject") =>
          (last.res = BugOrBroken <=>
              last.status # from_boolean(AllChildrenResolved(DictValues(last.arg))))

C1_Witness ==
    /\ nops = MaxOps
    /\ last.op = "with_fallback"
    /\ IsSimpleConfigObject(last.res)
    /\ resolve_status(last.res) = "unresolved"
    /\ \E o \in ObjectsOf(last.res) : o # last.res /\ resolve_status(o) = "unresolved"
    /\ \E o \in ObjectsOf(last.res) : o # last.res /\ resolve_status(o) = "resolved"

C1_WitnessRaises ==
    /\ ~IsNone(last) /\ last.op = "SimpleConfigObject"
    /\ last.status = "resolved" /\ last.arg.keys # <<>>
    /\ last.res = BugOrBroken

\* C6 as stated: every value reached from the constructors by with_fallback,
\* with_fallbacks_ignored, with_key_value, with_path_value, with_only_path and
\* without_path that ignores fallbacks is resolved.
C6_IgnoresImpliesResolved ==
    \A v \in Reached : ignores_fallbacks(v) => resolve_status(v) = "resolved"

\* --------------------------------------------- SpecPath: calls on one Path
\* Characters of a key, keys of a path.
MaxKeyLen == 2
MaxKeys == 4

StringsOfLen[n \in 0..(MaxKeyLen + 1)] ==
    IF n = 0 THEN {<<>>}
    ELSE {<<ch>> \o s : ch \in Chars, s \in StringsOfLen[n - 1]}
AllKeys == UNION {StringsOfLen[n] : n \in 0..MaxKeyLen}
SampleKeys == {<<>>, <<"a">>, <<"1">>, <<"é">>, <<"a", ".">>}

\* The Path of a sequence of keys.
RECURSIVE PathOf(_)
PathOf(ks) == Path(Head(ks), IF Len(ks) = 1 THEN None ELSE PathOf(Tail(ks)))

\* The keys of a Path, in order.
RECURSIVE KeysOf(_)
KeysOf(p) == IF IsNone(p) THEN <<>> ELSE <<p.first>> \o KeysOf(p.remainder)

KeySeqs[n \in 1..(MaxKeys + 1)] ==
    IF n = 1 THEN {<<k>> : k \in SampleKeys}
    ELSE {<<k>> \o ks : k \in SampleKeys, ks \in KeySeqs[n - 1]}

InitPath ==
    /\ given = <<>> /\ it = None /\ yielded = <<>>
    /\ path \in {PathOf(<<k>>) : k \in AllKeys}
                    \cup {PathOf(ks) : ks \in UNION {KeySeqs[n] : n \in 2..MaxKeys}}
    /\ L = None /\ R = None /\ res = None
    /\ a = None /\ b = None /\ c = None /\ chain = None
    /\ obj = None /\ last = None /\ nops = 0
    /\ heap = EmptyMemory /\ same = {}
    /\ h = <<"a", "b">>
    /\ pc = "init"

\* p.parent(), p.last() and, when there is a parent, the path a builder gives
\* that is handed the parent and then the last key.
ParentAndLast ==
    /\ pc = "init"
    /\ LET up == Path_parent_of(path)
           key == Path_last_of(path)
           appended == IF IsNone(up) THEN None
                       ELSE PathBuilder_result(
                                append_key(append_path(PathBuilder, up), key)).r
       IN  res' = Call("parent", "", [parent |-> up, last |-> key, appended |-> appended])
    /\ pc' = "done"
    /\ UNCHANGED <<given, it, yielded, same, heap, L, R, a, b, c, chain, obj, last, nops, path, h>>

Render ==
    /\ pc = "init"
    /\ res' = Call("unicode", "", unicode(path))
    /\ pc' = "done"
    /\ UNCHANGED <<given, it, yielded, same, heap, L, R, a, b, c, chain, obj, last, nops, path, h>>

\* Path.of_elements(*elements) for the keys of path, or for no element.
OfElements ==
    /\ pc = "init"
    /\ \E elements \in {KeysOf(path), <<>>} :
          res' = Call("of_elements", "", [elements |-> elements, r |-> of_elements(elements)])
    /\ pc' = "done"
    /\ UNCHANGED <<given, it, yielded, same, heap, L, R, a, b, c, chain, obj, last, nops, path, h>>

\* p.sub_path(first_index, last_index)
SubPath ==
    /\ pc = "init"
    /\ \E first_index \in 0..Path_length(path), last_index \in 0..Path_length(path) :
          res' = Call("sub_path", "",
                      [first_index |-> first_index, last_index |-> last_index,
                       r |-> sub_path(path, first_index, last_index)])
    /\ pc' = "done"
    /\ UNCHANGED <<given, it, yielded, same, heap, L, R, a, b, c, chain, obj, last, nops, path, h>>

\* p.remove_from_front(n)
RemoveFromFront ==
    /\ pc = "init"
    /\ \E n \in 0..(Path_length(path) + 1) :
          res' = Call("remove_from_front", "", [n |-> n, r |-> remove_from_front(path, n)])
    /\ pc' = "done"
    /\ UNCHANGED <<given, it, yielded, same, heap, L, R, a, b, c, chain, obj, last, nops, path, h>>

NextPath ==
    \/ ParentAndLast
    \/ Render
    \/ OfElements
    \/ SubPath
    \/ RemoveFromFront

SpecPath == InitPath /\ [][NextPath]_vars

ParentTaken == pc = "done" /\ res.op = "parent"

\* C15: for a path of two or more keys, appending last() to parent() gives a
\* path equal to it, parent() being the path of all keys but the last; for a
\* path of one key parent() is None and last() is that key.
C15_ParentLast ==
    ParentTaken =>
        IF Path_length(path) >= 2
        THEN /\ res.v.appended = path
             /\ KeysOf(res.v.parent) = Path_parent(KeysOf(path))
             /\ res.v.last = Path_last(KeysOf(path))
        ELSE /\ IsNone(res.v.parent)
             /\ res.v.last = path.first

C15_Witness ==
    /\ ParentTaken /\ Path_length(path) = 3
    /\ KeysOf(path) = <<<<"a">>, <<"1">>, <<>>>>
    /\ KeysOf(res.v.parent) = <<<<"a">>, <<"1">>>>
    /\ res.v.last = <<>>
    /\ res.v.appended = path

C15_WitnessSingle ==
    /\ ParentTaken /\ Path_length(path) = 1
    /\ IsNone(res.v.parent) /\ res.v.last = <<"a", "1">>

Rendered == pc = "done" /\ res.op = "unicode"

\* Strings joined with ".".
RECURSIVE Joined(_)
Joined(ss) ==
    IF Len(ss) = 1 THEN ss[1] ELSE ss[1] \o <<".">> \o Joined(Tail(ss))

AsciiClass == AsciiLetters \cup AsciiDigits \cup {"-", "_"}

\* Quoted, as stated: the key is empty, or its first character is not
\* alphabetic, or it has a character outside [A-Za-z0-9_-].
QuotedAsStated(k) ==
    \/ k = <<>>
    \/ ~isalpha(k[1])
    \/ \E i \in 1..Len(k) : k[i] \notin AsciiClass

\* Quoted: the key is empty, or its first character is not a letter, or it has
\* a character that is not a letter, a digit, "-" or "_", a letter or digit
\* being what isalpha() and isalnum() accept.
Quoted(k) ==
    \/ k = <<>>
    \/ ~isalpha(k[1])
    \/ \E i \in 1..Len(k) : ~(isalnum(k[i]) \/ k[i] \in {"-", "_"})

RenderedAsStated(k) == IF QuotedAsStated(k) THEN render_json_string(k) ELSE k
RenderedKey(k) == IF Quoted(k) THEN render_json_string(k) ELSE k

\* C16 as stated: the rendering of a path is its keys joined with ".", a key
\* being a quoted JSON string exactly when it is empty, or its first character
\* is not alphabetic, or it contains a character outside [A-Za-z0-9_-], and
\* verbatim otherwise.
C16_Stated ==
    Rendered =>
        res.v = Joined([i \in 1..Path_length(path) |-> RenderedAsStated(KeysOf(path)[i])])

\* C16, amended: the rendering of a path is its keys joined with ".", a key
\* being a quoted JSON string exactly when it is empty, or its first character
\* is not a letter, or it contains a character that is not a letter, a digit,
\* "-" or "_" (letters and digits of any script, as isalpha and isalnum accept
\* them), and verbatim otherwise.
C16_Render ==
    Rendered =>
        res.v = Joined([i \in 1..Path_length(path) |-> RenderedKey(KeysOf(path)[i])])

C16_Witness ==
    /\ Rendered
    /\ KeysOf(path) = <<<<"a">>, <<"1">>, <<>>, <<"a", ".">>>>
    /\ res.v = <<"a", ".", "\"", "1", "\"", ".", "\"", "\"", ".", "\"", "a", ".", "\"">>

C16_WitnessLetter ==
    /\ Rendered
    /\ KeysOf(path) = <<<<"a", "é">>>>
    /\ res.v = <<"a", "é">>

\* C27: of_elements(e1, ..., en), n >= 1, is the path of the keys e1, ..., en
\* in order, of length n, with first e1 and last en; of_elements() raises
\* BugOrBroken.
C27_OfElements ==
    (pc = "done" /\ res.op = "of_elements") =>
        IF res.v.elements = <<>> THEN res.v.r = BugOrBroken
        ELSE /\ KeysOf(res.v.r) = res.v.elements
             /\ Path_length(res.v.r) = Len(res.v.elements)
             /\ res.v.r.first = res.v.elements[1]
             /\ Path_last_of(res.v.r) = res.v.elements[Len(res.v.elements)]

\* C29: for 0 <= i < j <= length, sub_path(i, j) is the path of the keys at
\* positions i .. j-1; sub_path with j < i raises BugOrBroken;
\* remove_from_front(n) is the path without its first n keys, None when
\* n >= length.
C29_SubPath ==
    /\ (pc = "done" /\ res.op = "sub_path") =>
          /\ res.v.first_index < res.v.last_index =>
                /\ res.v.r.kind = "Path"
                /\ KeysOf(res.v.r) =
                      SubSeq(KeysOf(path), res.v.first_index + 1, res.v.last_index)
          /\ res.v.last_index < res.v.first_index => res.v.r = BugOrBroken
    /\ (pc = "done" /\ res.op = "remove_from_front") =>
          KeysOf(res.v.r) = SubSeq(KeysOf(path), res.v.n + 1, Len(KeysOf(path)))

\* ------------------------------------- SpecBuilder: calls on one PathBuilder
\* obj is the builder, chain the calls made on it with what each returned.
MaxBuilderOps == 4
BuilderKeys == {<<"a">>, <<"b">>}
BuilderPaths == {PathOf(<<<<"a">>>>), PathOf(<<<<"b">>, <<"a">>>>)}

InitBuilder ==
    /\ given = <<>> /\ it = None /\ yielded = <<>>
    /\ obj = PathBuilder /\ chain = <<>>
    /\ L = None /\ R = None /\ res = None
    /\ a = None /\ b = None /\ c = None
    /\ last = None /\ nops = 0 /\ path = NoPath
    /\ heap = EmptyMemory /\ same = {}
    /\ h = <<"a", "b">>
    /\ pc = "init"

\* One call on the builder: the builder after it and what it returned.  A
\* call that raises leaves the builder as it was.
BuilderCall(op, arg, after, r) ==
    /\ Len(chain) < MaxBuilderOps
    /\ obj' = after
    /\ chain' = Append(chain, [op |-> op, arg |-> arg, r |-> r])
    /\ UNCHANGED <<given, it, yielded, same, heap, L, R, res, a, b, c, last, nops, path, h, pc>>

AppendKey ==
    \E key \in BuilderKeys :
        LET after == append_key(obj, key)
        IN  IF after = BugOrBroken THEN BuilderCall("append_key", <<key>>, obj, BugOrBroken)
            ELSE BuilderCall("append_key", <<key>>, after, None)

AppendPath ==
    \E p \in BuilderPaths :
        LET after == append_path(obj, p)
        IN  IF after = BugOrBroken THEN BuilderCall("append_path", KeysOf(p), obj, BugOrBroken)
            ELSE BuilderCall("append_path", KeysOf(p), after, None)

Result ==
    LET out == PathBuilder_result(obj)
    IN  BuilderCall("result", <<>>, out.pb, out.r)

NextBuilder == AppendKey \/ AppendPath \/ Result
SpecBuilder == InitBuilder /\ [][NextBuilder]_vars

\* The keys the calls 1 .. n of chain appended, in order.
RECURSIVE Appended(_)
Appended(n) ==
    IF n = 0 THEN <<>>
    ELSE Appended(n - 1) \o (IF chain[n].r = BugOrBroken THEN <<>> ELSE chain[n].arg)

\* C28: once result() has been called, every later append_key or append_path
\* raises BugOrBroken and every later result() returns the same path; the
\* first result() returns the path of the keys appended, in order, or None
\* when there is none.
C28_ResultFreezes ==
    \A i \in 1..Len(chain) :
        chain[i].op = "result" =>
            /\ \A j \in (i + 1)..Len(chain) :
                  IF chain[j].op = "result" THEN chain[j].r = chain[i].r
                  ELSE chain[j].r = BugOrBroken
            /\ (\A k \in 1..(i - 1) : chain[k].op # "result") =>
                  KeysOf(chain[i].r) = Appended(i - 1)

\* --------------------------------------- SpecMemos: one ResolveMemos table
TypeError == [kind |-> "TypeError"]
ValueError == [kind |-> "ValueError"]
\* The __new__ of collections.namedtuple('MemoKey', ('value_id',
\* 'restrict_to_child_or_null')), called with the positional arguments args:
\* the class, then the two fields.
namedtuple_new(args) ==
    IF Len(args) # 3 THEN TypeError
    ELSE [kind |-> "MemoKey", value_id |-> args[2], restrict_to_child_or_null |-> args[3]]
\* id(value)
id(value) == value.id
\* MemoKey(value, restrict_to_child_or_null)
MemoKey(value, restrict_to_child_or_null) ==
    IF value.kind = "AbstractConfigValue"
    THEN namedtuple_new(<<id(value), restrict_to_child_or_null>>)
    ELSE IF value.kind = "int"
    THEN namedtuple_new(<<value.value, restrict_to_child_or_null>>)
    ELSE ValueError
\* ResolveMemos(): _memos maps keys to values.
ResolveMemos == [kind |-> "ResolveMemos", _memos |-> <<>>]
ResolveMemos_get(self, key) ==
    IF key \in DOMAIN self._memos THEN self._memos[key] ELSE None
ResolveMemos_put(self, key, value) ==
    [self EXCEPT !._memos = [k \in DOMAIN @ \cup {key} |-> IF k = key THEN value ELSE @[k]]]

MaxMemoOps == 3
\* Two nodes of equal contents, an int given for the id, and a str.
MemoNodes ==
    {[kind |-> "AbstractConfigValue", id |-> 1, value |-> "x"],
     [kind |-> "AbstractConfigValue", id |-> 2, value |-> "x"],
     [kind |-> "int", value |-> 1],
     [kind |-> "str", value |-> "x"]}
MemoRestricts == {None, PathOf(<<<<"a">>>>), PathOf(<<<<"b">>>>)}
MemoValues == {None, [kind |-> "AbstractConfigValue", id |-> 3, value |-> "y"],
               [kind |-> "AbstractConfigValue", id |-> 4, value |-> "z"]}

\* obj is the table, chain the calls made with what each returned.
InitMemos ==
    /\ given = <<>> /\ it = None /\ yielded = <<>>
    /\ obj = ResolveMemos /\ chain = <<>>
    /\ L = None /\ R = None /\ res = None
    /\ a = None /\ b = None /\ c = None
    /\ last = None /\ nops = 0 /\ path = NoPath
    /\ heap = EmptyMemory /\ same = {}
    /\ h = <<"a", "b">>
    /\ pc = "init"

MemoCall(op, node, restrict, value, after, r) ==
    /\ Len(chain) < MaxMemoOps
    /\ obj' = after
    /\ chain' = Append(chain, [op |-> op, node |-> node, restrict |-> restrict,
                               value |-> value, r |-> r])
    /\ UNCHANGED <<given, it, yielded, same, heap, L, R, res, a, b, c, last, nops, path, h, pc>>

\* memos.put(MemoKey(node, restrict), value)
MemoPut_keyed(node, restrict, value, key) ==
    IF key.kind # "MemoKey" THEN MemoCall("put", node, restrict, value, obj, key)
    ELSE MemoCall("put", node, restrict, value, ResolveMemos_put(obj, key, value), None)
MemoPut ==
    \E node \in MemoNodes, restrict \in MemoRestricts, value \in MemoValues :
        MemoPut_keyed(node, restrict, value, MemoKey(node, restrict))

\* memos.get(MemoKey(node, restrict))
MemoGet_keyed(node, restrict, key) ==
    IF key.kind # "MemoKey" THEN MemoCall("get", node, restrict, None, obj, key)
    ELSE MemoCall("get", node, restrict, None, obj, ResolveMemos_get(obj, key))
MemoGet ==
    \E node \in MemoNodes \ {[kind |-> "str", value |-> "x"]}, restrict \in MemoRestricts :
        MemoGet_keyed(node, restrict, MemoKey(node, restrict))

NextMemos == MemoPut \/ MemoGet
SpecMemos == InitMemos /\ [][NextMemos]_vars

\* The node identity a call names: the id of the node, or the int given for it.
NodeIdentity(node) == IF node.kind = "int" THEN node.value ELSE node.id
SameKey(x, y) ==
    /\ NodeIdentity(x.node) = NodeIdentity(y.node)
    /\ x.restrict = y.restrict
\* The puts before call j under the key of call j.
PutsBefore(j) ==
    {i \in 1..(j - 1) : chain[i].op = "put" /\ chain[i].node.kind # "str"
                          /\ SameKey(chain[i], chain[j])}
\* C26: get(k) returns the value most recently put under a key equal to k
\* (None when there is none), where two keys are equal iff they name the same
\* node identity and the same restriction path.
C26_Memos ==
    \A j \in 1..Len(chain) :
        chain[j].op = "get" =>
            chain[j].r = IF PutsBefore(j) = {} THEN None
                         ELSE chain[CHOOSE i \in PutsBefore(j) :
                                        \A k \in PutsBefore(j) : k <= i].value

\* ------------------------------------------------- resolving substitutions
NotPossibleToResolve == [kind |-> "NotPossibleToResolve"]
UnresolvedSubstitution == [kind |-> "UnresolvedSubstitution"]
Thrown(v) ==
    v.kind \in {"BugOrBroken", "NotImplementedError", "TypeError", "ValueError",
                "NotPossibleToResolve", "UnresolvedSubstitution"}

\* A ResolveContext: the root looked up by substitutions, the options, the
\* restriction (NoPath for none) and the keys of the nodes being resolved.
\* The memos it owns are passed along with it and returned by every call.
ResolveContext(root, allow_unresolved) ==
    [kind |-> "ResolveContext", root |-> root, allow_unresolved |-> allow_unresolved,
     restrict_to_child |-> NoPath, resolve_stack |-> {}]
is_restricted_to_child(context) == context.restrict_to_child # NoPath
restrict(context, restrict_to) == [context EXCEPT !.restrict_to_child = restrict_to]
unrestricted(context) == restrict(context, NoPath)
\* A node of the tree under root has the place it stands at for identity.
NodeAt(loc) == [kind |-> "AbstractConfigValue", id |-> loc]
Returned(memos, r) == [memos |-> memos, r |-> r]
ModifierWith(modifier, key, r) ==
    [k \in DOMAIN modifier \cup {key} |-> IF k = key THEN r ELSE modifier[k]]

RECURSIVE ResolveContext_resolve(_, _, _, _)
RECURSIVE resolve_substitutions(_, _, _, _)

\* AbstractConfigValue.resolve_substitutions(context)
AbstractConfigValue_resolve_substitutions(self, context) == self

\* M.modify_child(key, v) of SimpleConfigObject.resolve_substitutions
modify_child(context, memos, loc, key, v) ==
    IF is_restricted_to_child(context)
    THEN IF key = Path_first(context.restrict_to_child)
         THEN IF Path_remainder(context.restrict_to_child) # NoPath
              THEN ResolveContext_resolve(
                       restrict(context, Path_remainder(context.restrict_to_child)),
                       memos, Append(loc, key), v)
              ELSE Returned(memos, v)
         ELSE Returned(memos, v)
    ELSE ResolveContext_resolve(unrestricted(context), memos, Append(loc, key), v)

\* The calls of modify_child that modify(M()) makes, in the order of the keys:
\* what each returned, or what the first one that raised has raised.
RECURSIVE modify_children(_, _, _, _, _, _)
modify_children_next(context, loc, self, i, modifier, modified) ==
    IF Thrown(modified.r) THEN modified
    ELSE modify_children(context, modified.memos, loc, self, i + 1,
                         ModifierWith(modifier, keys(self)[i], modified.r))
modify_children(context, memos, loc, self, i, modifier) ==
    IF i > Len(keys(self)) THEN [memos |-> memos, r |-> None, modifier |-> modifier]
    ELSE modify_children_next(context, loc, self, i, modifier,
             modify_child(context, memos, loc, keys(self)[i], get(self, keys(self)[i])))

\* SimpleConfigObject.resolve_substitutions that resolves a resolved object too.
SimpleConfigObject_resolve_substitutions_modified(self, modified) ==
    IF Thrown(modified.r) THEN modified
    ELSE Returned(modified.memos, modify(self, modified.modifier))
SimpleConfigObject_resolve_substitutions_always(context, memos, loc, self) ==
    SimpleConfigObject_resolve_substitutions_modified(self,
        modify_children(context, memos, loc, self, 1, <<>>))

\* SimpleConfigObject.resolve_substitutions(context)
SimpleConfigObject_resolve_substitutions(context, memos, loc, self) ==
    IF resolve_status(self) = "resolved" THEN Returned(memos, self)
    ELSE SimpleConfigObject_resolve_substitutions_modified(self,
             modify_children(context, memos, loc, self, 1, <<>>))

\* peek_path_with_context(self, lookup, context), self being the root.
peek_path_with_context_resolved(lookup, partially_resolved) ==
    IF Thrown(partially_resolved.r) THEN partially_resolved
    ELSE IF IsAbstractConfigObject(partially_resolved.r)
    THEN Returned(partially_resolved.memos,
                  peek_path_without_context(partially_resolved.r, lookup))
    ELSE Returned(partially_resolved.memos, BugOrBroken)
peek_path_with_context(self, lookup, context, memos) ==
    peek_path_with_context_resolved(lookup,
        ResolveContext_resolve(restrict(context, lookup), memos, <<>>, self))

\* The module's peek_path(self, lookup, context) and the method peek_path of
\* AbstractConfigObject, which has nothing to resolve with when context is None.
peek_path(self, lookup, context, memos) ==
    IF ~IsNone(context) THEN peek_path_with_context(self, lookup, context, memos)
    ELSE Returned(memos, peek_path_without_context(self, lookup))
AbstractConfigObject_peek_path_caught(peeked) ==
    IF peeked.r = NotPossibleToResolve THEN Returned(peeked.memos, BugOrBroken)
    ELSE peeked
AbstractConfigObject_peek_path(self, lookup, context, memos) ==
    IF ~IsNone(context) THEN peek_path(self, lookup, context, memos)
    ELSE AbstractConfigObject_peek_path_caught(peek_path(self, lookup, None, memos))

\* A substitution: look the path up in the root, then resolve what was found.
\* NotPossibleToResolve from either is caught here.
ConfigReference_cycle(context, resolved) ==
    IF resolved.r = NotPossibleToResolve
    THEN Returned(resolved.memos,
                  IF context.allow_unresolved THEN None ELSE UnresolvedSubstitution)
    ELSE resolved
ConfigReference_found(context, self, found) ==
    IF Thrown(found.r) THEN found
    ELSE IF IsNone(found.r)
    THEN Returned(found.memos,
                  IF context.allow_unresolved THEN self ELSE UnresolvedSubstitution)
    ELSE ResolveContext_resolve(unrestricted(context), found.memos, self.path, found.r)
ConfigReference_resolve_substitutions(context, memos, self) ==
    ConfigReference_cycle(context,
        ConfigReference_found(context, self,
            peek_path(context.root, self.path, context, memos)))

resolve_substitutions(context, memos, loc, self) ==
    IF IsSimpleConfigObject(self)
    THEN SimpleConfigObject_resolve_substitutions(context, memos, loc, self)
    ELSE IF self.kind = "subst"
    THEN ConfigReference_resolve_substitutions(context, memos, self)
    ELSE Returned(memos, AbstractConfigValue_resolve_substitutions(self, context))

\* ResolveContext.resolve(original): memoized, or resolved while its key is
\* on the stack and then memoized.
ResolveContext_resolve_memoize(key, resolved) ==
    IF Thrown(resolved.r) THEN resolved
    ELSE Returned(ResolveMemos_put(resolved.memos, key, resolved.r), resolved.r)
ResolveContext_resolve_keyed(context, memos, loc, original, key) ==
    IF key.kind # "MemoKey" THEN Returned(memos, key)
    ELSE IF key \in DOMAIN memos._memos THEN Returned(memos, ResolveMemos_get(memos, key))
    ELSE IF key \in context.resolve_stack THEN Returned(memos, NotPossibleToResolve)
    ELSE ResolveContext_resolve_memoize(key,
             resolve_substitutions([context EXCEPT !.resolve_stack = @ \cup {key}],
                                   memos, loc, original))
ResolveContext_resolve(context, memos, loc, original) ==
    ResolveContext_resolve_keyed(context, memos, loc, original,
                                 MemoKey(NodeAt(loc), context.restrict_to_child))

\* The outermost resolve of root under the options.
resolve_outermost(resolved) ==
    IF resolved.r = NotPossibleToResolve THEN UnresolvedSubstitution ELSE resolved.r
resolve(root, allow_unresolved) ==
    resolve_outermost(
        ResolveContext_resolve(ResolveContext(root, allow_unresolved), ResolveMemos, <<>>, root))

\* ------------------------------------------- SpecResolve: one root resolved
\* L is the root, last the option allow_unresolved, path the restriction of
\* the context (NoPath for none), R what resolve_substitutions returned.
ResolveLeaves ==
    {ConfigInt(1), ConfigSubstitution(<<"a">>), ConfigSubstitution(<<"b">>),
     ConfigSubstitution(<<"a", "a">>)}
ObjectOf(value) == SimpleConfigObject(value, from_values(DictValues(value)), FALSE)
ResolveChildren == ResolveLeaves \cup {ObjectOf(SingletonDict("a", v)) : v \in ResolveLeaves}
ResolveRoots ==
    {ObjectOf(EmptyDict)}
    \cup {ObjectOf(SingletonDict(k, v)) : k \in Keys, v \in ResolveChildren}
    \cup {ObjectOf(DictPut(SingletonDict("a", v), "b", w)) : v, w \in ResolveChildren}
ResolvePaths == {<<"a">>, <<"b">>, <<"a", "a">>}

InitResolve ==
    /\ given = <<>> /\ it = None /\ yielded = <<>>
    /\ L \in ResolveRoots /\ last \in BOOLEAN /\ path \in {NoPath} \cup ResolvePaths
    /\ R = None /\ res = None
    /\ a = None /\ b = None /\ c = None /\ chain = None
    /\ obj = None /\ nops = 0
    /\ heap = EmptyMemory /\ same = {}
    /\ h = <<"a", "b">>
    /\ pc = "init"

Resolved(op, r, to) ==
    /\ res' = Call(op, "", r)
    /\ pc' = to
    /\ UNCHANGED <<given, it, yielded, same, heap, L, a, b, c, chain, obj, last, nops, path, h>>

\* L.resolve_substitutions(context), context restricted to path
ResolveSubstitutions ==
    /\ pc = "init"
    /\ R' = resolve_substitutions(restrict(ResolveContext(L, last), path), ResolveMemos, <<>>, L).r
    /\ Resolved("resolve_substitutions", R', "once")

\* The same call on what the first one returned.
ResolveSubstitutionsAgain ==
    /\ pc = "once" /\ ~Thrown(R) /\ ~IsNone(R)
    /\ Resolved("resolve_substitutions again",
                resolve_substitutions(restrict(ResolveContext(R, last), path), ResolveMemos, <<>>, R).r,
                "done")
    /\ UNCHANGED R

\* The outermost resolve of L.
Resolve ==
    /\ pc = "init"
    /\ Resolved("resolve", resolve(L, last), "done")
    /\ UNCHANGED R

\* L.peek_path(path) with no context.
PeekPath ==
    /\ pc = "init" /\ path # NoPath
    /\ Resolved("peek_path", AbstractConfigObject_peek_path(L, path, None, ResolveMemos).r, "done")
    /\ UNCHANGED R

NextResolve == ResolveSubstitutions \/ ResolveSubstitutionsAgain \/ Resolve \/ PeekPath
SpecResolve == InitResolve /\ [][NextResolve]_vars

\* What a value of the tree under root stands for: a scalar for itself, an
\* object for the object of what its children stand for, a substitution for
\* what the value at its path stands for.  Cycle when following substitutions
\* does not end within n of them, Missing when a path leads nowhere.
Cycle == [kind |-> "Cycle"]
Missing == [kind |-> "Missing"]
MaxDepth == 4
RECURSIVE StandsFor(_, _, _)
RECURSIVE StandsForAt(_, _, _, _)
StandsForObject(self, children) ==
    IF \E k \in DOMAIN children : children[k] = Cycle THEN Cycle
    ELSE IF \E k \in DOMAIN children : children[k] = Missing THEN Missing
    ELSE ObjectOf([keys |-> keys(self), at |-> children])
StandsFor(root, v, n) ==
    IF n = 0 THEN Cycle
    ELSE IF IsSimpleConfigObject(v)
    THEN StandsForObject(v, [k \in DictKeySet(v.value) |-> StandsFor(root, get(v, k), n)])
    ELSE IF v.kind = "subst" THEN StandsForAt(root, root, v.path, n - 1)
    ELSE v
StandsForChild(root, child, rest, n) ==
    IF IsNone(child) THEN Missing
    ELSE IF rest = NoPath THEN StandsFor(root, child, n)
    ELSE StandsForAt(root, child, rest, n)
StandsForIn(root, within, target, n) ==
    IF within \in {Cycle, Missing} THEN within
    ELSE IF ~IsSimpleConfigObject(within) THEN Missing
    ELSE StandsForChild(root, get(within, Path_first(target)), Path_remainder(target), n)
StandsForAt(root, within, target, n) ==
    StandsForIn(root, IF within.kind = "subst" THEN StandsFor(root, within, n) ELSE within,
                target, n)
\* The places of the substitutions of root that are part of a cycle.
CycleLeaves(root) ==
    {p \in {<<k>> : k \in Keys} \cup {<<k, "a">> : k \in Keys} :
        LET v == peek_path_without_context(root, p)
        IN  v.kind = "subst" /\ StandsFor(root, v, MaxDepth) = Cycle}

\* C22: resolving an unresolved object whose substitutions all lead to values
\* returns, for an unrestricted context, the object of its resolved children;
\* for a context restricted to a path, every child but the one the path starts
\* with is returned unchanged, and that child too when nothing of the path
\* remains.
C22_ResolveObject ==
    (/\ pc = "once" /\ resolve_status(L) = "unresolved"
     /\ StandsFor(L, L, MaxDepth) \notin {Cycle, Missing})
    => /\ ~Thrown(R)
       /\ path = NoPath => R = StandsFor(L, L, MaxDepth)
       /\ path # NoPath =>
             /\ \A k \in DictKeySet(L.value) \ {Path_first(path)} : get(R, k) = get(L, k)
             /\ Path_remainder(path) = NoPath => R = L

C23_WitnessUnresolved ==
    /\ pc = "done" /\ res.op = "resolve_substitutions again"
    /\ resolve_status(L) = "unresolved" /\ res.v = R

\* C24: the outermost resolve of a root whose substitutions form a cycle
\* raises UnresolvedSubstitution, or with allow_unresolved returns a tree in
\* which no substitution of the cycle is left or has a value (there is nothing
\* at its place, or an object that lacks it); neither it nor peek_path without
\* a context lets NotPossibleToResolve out.
C24_Cycles ==
    (pc = "done" /\ res.op \in {"resolve", "peek_path"}) =>
        /\ res.v # NotPossibleToResolve
        /\ (res.op = "resolve" /\ StandsFor(L, L, MaxDepth) = Cycle) =>
              IF ~last THEN res.v = UnresolvedSubstitution
              ELSE /\ IsSimpleConfigObject(res.v)
                   /\ \A p \in CycleLeaves(L) :
                         peek_path_without_context(res.v, p).kind \in {"None", "object"}

\* ------------------------------------------ SpecEquals: one comparison
EqualsEdges == 2
ETrees == TreesBySize(LLeaves, EqualsEdges)
EValues == UNION {Flagged(x) : x \in UNION {ETrees[n] : n \in 0..EqualsEdges}}

InitEquals ==
    /\ given = <<>> /\ it = None /\ yielded = <<>>
    /\ L \in {x \in EValues : IsSimpleConfigObject(x)}
    /\ R \in EValues
    /\ same \in SUBSET {k \in Keys : /\ IsSimpleConfigObject(R)
                                     /\ k \in DictKeySet(L.value) \cap DictKeySet(R.value)
                                     /\ L.value.at[k] = R.value.at[k]}
    /\ res = None
    /\ a = None /\ b = None /\ c = None /\ chain = None
    /\ obj = None /\ last = None /\ nops = 0 /\ path = NoPath
    /\ heap = EmptyMemory
    /\ h \in HashOrders
    /\ pc = "init"

Equals ==
    /\ pc = "init"
    /\ res' = Call("__eq__", "", SimpleConfigObject_eq(L, R, same))
    /\ pc' = "done"
    /\ UNCHANGED <<given, it, yielded, L, R, a, b, c, chain, obj, last, nops, path, h, heap, same>>

NextEquals == Equals

SpecEquals == InitEquals /\ [][NextEquals]_vars

Compared == pc = "done" /\ res.op = "__eq__"

\* C14: two objects are equal exactly when they have the same set of keys and
\* equal children under every key, whatever their resolve status, their
\* ignoresFallbacks flag and the order in which their keys were inserted.
C14_Equality ==
    (Compared /\ IsSimpleConfigObject(R)) =>
        (res.v <=> /\ DictKeySet(L.value) = DictKeySet(R.value)
                   /\ \A k \in DictKeySet(L.value) : equals(L.value.at[k], R.value.at[k]))

\* --------------------------- SpecMemory: operations on objects in a memory
\* Edges of the object the memory starts with, the operations made on it.
MemEdges == 1
MaxMemOps == 2
\* Keys of the paths given to the operations.
MemPathLen == 2
MemPaths == {p \in Paths : Len(p) <= MemPathLen}

MemTrees == TreesBySize(LLeaves, MemEdges)
MemObjects ==
    UNION {Flagged(x) : x \in {y \in UNION {MemTrees[n] : n \in 0..MemEdges} :
                                   IsSimpleConfigObject(y)}}

\* The memory after the objects of a tree were built, innermost first.
RECURSIVE Alloc(_, _)
RECURSIVE AllocDict(_, _, _, _)
Alloc(M, v) ==
    IF IsSimpleConfigObject(v)
    THEN LET children == AllocDict(M, v.value, 1, EmptyDict)
             d == new_dict(children.mem, children.r)
         IN  Out([d.mem EXCEPT !.objs = Append(@, [value |-> d.r,
                                                   resolved |-> v.resolved,
                                                   ignores_fallbacks |-> v.ignores_fallbacks])],
                 Ref(Len(d.mem.objs) + 1))
    ELSE Out(M, v)

AllocDict(M, d, i, acc) ==
    IF i > Len(d.keys) THEN Out(M, acc)
    ELSE LET k == d.keys[i]
             child == Alloc(M, d.at[k])
         IN  AllocDict(child.mem, d, i + 1, DictPut(acc, k, child.r))

Objects(M) == {Ref(i) : i \in 1..Len(M.objs)}

\* What an operation can be given: an object of the memory or a new leaf.
MemValues(M) == Objects(M) \cup {ConfigInt(2), ConfigSubstitution(2)}

InitMemory ==
    /\ given = <<>> /\ it = None /\ yielded = <<>>
    /\ \E o \in MemObjects : heap = Alloc(EmptyMemory, o).mem
    /\ last = None /\ same = {}
    /\ nops = 0
    /\ h \in HashOrders
    /\ L = None /\ R = None /\ res = None
    /\ a = None /\ b = None /\ c = None /\ chain = None
    /\ obj = None /\ path = NoPath
    /\ pc = "init"

MemOp(op, self, at, arg, out) ==
    /\ nops < MaxMemOps
    /\ heap' = out.mem
    /\ last' = [kind |-> "memcall", op |-> op, self |-> self, at |-> at, arg |-> arg,
                res |-> out.r, before |-> heap]
    /\ nops' = nops + 1
    /\ UNCHANGED <<given, it, yielded, same, L, R, res, a, b, c, chain, obj, path, h, pc>>

MemWithOnlyPath ==
    \E self \in Objects(heap), p \in MemPaths :
        MemOp("with_only_path", self, p, None, mem_with_only_path(heap, self, p))

MemWithoutPath ==
    \E self \in Objects(heap), p \in MemPaths :
        MemOp("without_path", self, p, None, mem_without_path(heap, self, p))

MemWithKeyValue ==
    \E self \in Objects(heap), k \in Keys, v \in MemValues(heap) :
        MemOp("with_key_value", self, k, v, mem_with_key_value(heap, self, k, v))

MemWithPathValue ==
    \E self \in Objects(heap), p \in MemPaths, v \in MemValues(heap) :
        MemOp("with_path_value", self, p, v, mem_with_path_value(heap, self, p, v))

MemMergedWithObject ==
    \E self \in Objects(heap), fallback \in Objects(heap) :
        MemOp("merged_with_object", self, None, fallback,
              mem_merged_with_object(heap, self, fallback, h))

MemModify ==
    \E self \in Objects(heap) :
        \E modifier \in [DictKeySet(mem_value(heap, self)) ->
                            DictValues(mem_value(heap, self))
                                \cup {None, ConfigSubstitution(2)}] :
            /\ \A k \in DictKeySet(mem_value(heap, self)) :
                  modifier[k] \in {mem_value(heap, self).at[k], None, ConfigSubstitution(2)}
            /\ MemOp("modify", self, modifier, None, mem_modify(heap, self, modifier))

MemWithFallbacksIgnored ==
    \E self \in Objects(heap) :
        MemOp("with_fallbacks_ignored", self, None, None,
              mem_with_fallbacks_ignored(heap, self))

NextMemory ==
    \/ MemWithOnlyPath
    \/ MemWithoutPath
    \/ MemWithKeyValue
    \/ MemWithPathValue
    \/ MemMergedWithObject
    \/ MemModify
    \/ MemWithFallbacksIgnored

SpecMemory == InitMemory /\ [][NextMemory]_vars

MemCalled == last.kind = "memcall"

\* C13: an operation leaves every dictionary and every object that existed
\* before it as it was: the map, the resolve status and the ignoresFallbacks
\* flag of its receiver, of its argument and of every object obtained earlier
\* are the same after the operation as before it.
C13_Frame ==
    MemCalled =>
        /\ \A d \in 1..Len(last.before.dicts) : heap.dicts[d] = last.before.dicts[d]
        /\ \A i \in 1..Len(last.before.objs) : heap.objs[i] = last.before.objs[i]
        /\ \A o \in Objects(last.before) : Deref(heap, o) = Deref(last.before, o)

\* An operation that stored a value in a copy of a receiver with keys, after
\* an earlier operation.
C13_Witness ==
    /\ MemCalled /\ nops = 2
    /\ last.op \in {"with_key_value", "without_path"}
    /\ IsRef(last.res) /\ last.res \notin Objects(last.before)
    /\ mem_value(last.before, last.self).keys # <<>>
    /\ mem_value(heap, last.res) # mem_value(heap, last.self)
    /\ Len(heap.dicts) = Len(last.before.dicts) + 1

\* --------------------------------------------------------------- tokenizer
\* tokenizer.py is the Java tokenizer with its first methods ported; both
\* parts are read as one program.  input is a Reader: read() gives the next
\* character, or -1 (EOF below) at the end of the input and ever after.  A
\* string is the sequence of its characters.  Origins and line numbers are
\* not modelled: no token's place in the stream depends on them.
EOF == "EOF"

\* Tokens (tokens.py).  A token built by a raised problem(...) travels in a
\* ProblemException.
Token(token_type) == [kind |-> "Token", type |-> token_type]
START == Token("start")
END == Token("end")
COMMA == Token("comma")
EQUALS == Token("equals")
COLON == Token("colon")
OPEN_CURLY == Token("open_curly")
CLOSE_CURLY == Token("close_curly")
OPEN_SQUARE == Token("open_square")
CLOSE_SQUARE == Token("close_square")
PLUS_EQUALS == Token("plus_equals")
\* Tokens.newLine(origin): the newline token with the line number of its origin.
new_line(line_number) == [kind |-> "Token", type |-> "newline", line_number |-> line_number]
new_problem(what, message) ==
    [kind |-> "Token", type |-> "problem", what |-> what, message |-> message]
new_comment(text) == [kind |-> "Token", type |-> "comment", text |-> text]
new_unquoted_text(s) == [kind |-> "Token", type |-> "unquoted_text", value |-> s]
new_substitution(optional, expression) ==
    [kind |-> "Token", type |-> "substitution", optional |-> optional,
     expression |-> expression]
new_value(value) == [kind |-> "Token", type |-> "value", value |-> value]

\* new_string that wraps the ConfigString in a Value token.
new_string_as_value(value) == new_value([kind |-> "ConfigString", value |-> value])

\* new_string returns the ConfigString itself, not a token holding it.
new_string(value) == [kind |-> "ConfigString", value |-> value]

new_long(value, original_text) ==
    new_value([kind |-> "ConfigNumber", value |-> value, original_text |-> original_text])
new_double(value, original_text) ==
    new_value([kind |-> "ConfigNumber", value |-> value, original_text |-> original_text])
new_null == new_value([kind |-> "ConfigNull"])
new_boolean(value) == new_value([kind |-> "ConfigBoolean", value |-> value])

IsToken(t, token_type) == t.kind = "Token" /\ t.type = token_type
is_value(t) == IsToken(t, "value")
is_unquoted_text(t) == IsToken(t, "unquoted_text")
is_substitution(t) == IsToken(t, "substitution")
is_problem(t) == IsToken(t, "problem")

is_simple_value(t) == is_substitution(t) \/ is_unquoted_text(t) \/ is_value(t)

ProblemException(problem) == [kind |-> "ProblemException", problem |-> problem]
IsProblemException(e) == e.kind = "ProblemException"

\* problem(what, message): the exception to throw.
problem(what, message) == ProblemException(new_problem(what, message))

\* ---- WhitespaceSaver
WhitespaceSaver == [whitespace |-> <<>>, last_token_was_simple_value |-> FALSE]

saver_add(saver, ch) ==
    IF saver.last_token_was_simple_value
    THEN [saver EXCEPT !.whitespace = Append(@, ch)]
    ELSE saver

next_is_not_a_simple_value(saver) ==
    [saver |-> [whitespace |-> <<>>, last_token_was_simple_value |-> FALSE],
     t |-> None]

next_is_a_simple_value(saver) ==
    IF saver.last_token_was_simple_value
    THEN IF Len(saver.whitespace) > 0
         THEN [saver |-> [saver EXCEPT !.whitespace = <<>>],
               t |-> new_unquoted_text(saver.whitespace)]
         ELSE [saver |-> saver, t |-> None]
    ELSE [saver |-> [whitespace |-> <<>>, last_token_was_simple_value |-> TRUE],
          t |-> None]

\* check(t): the saver after the call and the whitespace token, or None.
saver_check(saver, t) ==
    IF is_simple_value(t) THEN next_is_a_simple_value(saver)
    ELSE next_is_not_a_simple_value(saver)

\* ---- the reader with its push-back buffer
NotRaised == "none"
\* throw exception, unless one is already on its way.
raise(r, exception) ==
    IF r.raised = NotRaised THEN [r EXCEPT !.raised = exception] ELSE r
\* r is the iterator without its queue: (input, buffer, allow_comments,
\* raised, line_number).  raised names an exception other than ProblemException that a
\* step has thrown (NotRaised while there is none); what is computed after it
\* is discarded by next.
next_char_raw(r) ==
    IF Len(r.buffer) = 0
    THEN IF r.input = <<>> THEN [r |-> r, c |-> EOF]
         ELSE [r |-> [r EXCEPT !.input = Tail(@)], c |-> Head(r.input)]
    ELSE [r |-> [r EXCEPT !.buffer = Tail(@)], c |-> Head(r.buffer)]

\* putBack that adds at the far end of the buffer.
putBack_fifo(r, ch) ==
    IF Len(r.buffer) > 2 THEN raise(r, "BugOrBroken")
    ELSE [r EXCEPT !.buffer = @ \o <<ch>>]

putBack(r, ch) ==
    IF Len(r.buffer) > 2 THEN raise(r, "BugOrBroken")
    ELSE [r EXCEPT !.buffer = <<ch>> \o @]

isWhitespace(ch) == ch \in {" ", "\n", "\t"}
isWhitespaceNotNewline(ch) == ch # "\n" /\ isWhitespace(ch)
isISOControl(ch) == ch \in {"\n", "\t"}

\* startOfComment(c): the reader after the look-ahead and the answer.
startOfComment(r, ch) ==
    IF ch = EOF THEN [r |-> r, b |-> FALSE]
    ELSE IF r.allow_comments
    THEN IF ch = "#" THEN [r |-> r, b |-> TRUE]
         ELSE IF ch = "/"
         THEN LET maybeSecondSlash == next_char_raw(r)
              IN  [r |-> putBack(maybeSecondSlash.r, maybeSecondSlash.c),
                   b |-> maybeSecondSlash.c = "/"]
         ELSE [r |-> r, b |-> FALSE]
    ELSE [r |-> r, b |-> FALSE]

RECURSIVE nextCharAfterWhitespace(_, _)
nextCharAfterWhitespace(r, saver) ==
    LET n == next_char_raw(r)
    IN  IF n.c = EOF THEN [r |-> n.r, saver |-> saver, c |-> EOF]
        ELSE IF isWhitespaceNotNewline(n.c)
        THEN nextCharAfterWhitespace(n.r, saver_add(saver, n.c))
        ELSE [r |-> n.r, saver |-> saver, c |-> n.c]

RECURSIVE pullComment_loop(_, _)
pullComment_loop(r, sb) ==
    LET n == next_char_raw(r)
    IN  IF n.c = EOF \/ n.c = "\n"
        THEN [r |-> putBack(n.r, n.c), t |-> new_comment(sb)]
        ELSE pullComment_loop(n.r, Append(sb, n.c))

pullComment(r, firstChar) ==
    IF firstChar = "/"
    THEN LET discard == next_char_raw(r)
         IN  IF discard.c # "/" THEN [r |-> raise(discard.r, "BugOrBroken"), t |-> None]
             ELSE pullComment_loop(discard.r, <<>>)
    ELSE pullComment_loop(r, <<>>)

firstNumberChars == {"0", "1", "2", "3", "4", "5", "6", "7", "8", "9", "-"}
numberChars == firstNumberChars \cup {"e", "E", "+", "."}
\* (without the grave accent, which no text below contains)
notInUnquotedText ==
    {"$", "\"", "{", "}", "[", "]", ":", "=", ",", "+", "#", "^", "?", "!",
     "@", "*", "&", "\\"}

RECURSIVE pullUnquotedText_loop(_, _, _)
pullUnquotedText_loop(r, sb, ch) ==
    LET comment == startOfComment(r, ch)
        stop == \/ ch = EOF
                \/ ch \in notInUnquotedText
                \/ isWhitespace(ch)
                \/ comment.b
        after == IF ch = EOF \/ ch \in notInUnquotedText \/ isWhitespace(ch) THEN r
                 ELSE comment.r
        s == Append(sb, ch)
    IN  IF stop THEN [r |-> putBack(after, ch), t |-> new_unquoted_text(sb)]
        ELSE IF s = <<"t", "r", "u", "e">> THEN [r |-> after, t |-> new_boolean(TRUE)]
        ELSE IF s = <<"n", "u", "l", "l">> THEN [r |-> after, t |-> new_null]
        ELSE IF s = <<"f", "a", "l", "s", "e">> THEN [r |-> after, t |-> new_boolean(FALSE)]
        ELSE LET n == next_char_raw(after)
             IN  pullUnquotedText_loop(n.r, s, n.c)

pullUnquotedText(r) ==
    LET n == next_char_raw(r) IN pullUnquotedText_loop(n.r, <<>>, n.c)

Digits == firstNumberChars \ {"-"}
DigitValue(d) == CHOOSE v \in 0..9 : <<"0", "1", "2", "3", "4", "5", "6", "7", "8", "9">>[v + 1] = d
RECURSIVE StripZeros(_)
StripZeros(digits) ==
    IF Len(digits) > 1 /\ digits[1] = "0" THEN StripZeros(Tail(digits)) ELSE digits
\* x <= y for two digit runs of one length.
RECURSIVE DigitsLeq(_, _)
DigitsLeq(x, y) ==
    IF x = <<>> THEN TRUE
    ELSE IF DigitValue(x[1]) # DigitValue(y[1]) THEN DigitValue(x[1]) < DigitValue(y[1])
    ELSE DigitsLeq(Tail(x), Tail(y))
\* The digits of Long.MAX_VALUE and of -Long.MIN_VALUE.
MaxLong == <<"9","2","2","3","3","7","2","0","3","6","8","5","4","7","7","5","8","0","7">>
MinLong == <<"9","2","2","3","3","7","2","0","3","6","8","5","4","7","7","5","8","0","8">>
InLongRange(digits, negative) ==
    \/ Len(StripZeros(digits)) < Len(MaxLong)
    \/ /\ Len(StripZeros(digits)) = Len(MaxLong)
       /\ DigitsLeq(StripZeros(digits), IF negative THEN MinLong ELSE MaxLong)
\* Long.parseLong(s) and Double.parseDouble(s) succeed.
parseLong_ok(s) ==
    LET negative == Len(s) > 0 /\ s[1] = "-"
        digits == IF negative THEN Tail(s) ELSE s
    IN  /\ Len(digits) > 0
        /\ \A i \in 1..Len(digits) : digits[i] \in Digits
        /\ InLongRange(digits, negative)
\* The value parsed: the long of the digits after their leading zeros, the
\* double of the literal.
parseLong(s) ==
    LET negative == s[1] = "-"
        magnitude == StripZeros(IF negative THEN Tail(s) ELSE s)
    IN  [type |-> "long", negative |-> negative /\ magnitude # <<"0">>, digits |-> magnitude]
parseDouble(s) == [type |-> "double", literal |-> s]
parseDouble_ok(s) ==
    /\ Len(s) > 0 /\ s[Len(s)] \in Digits \cup {"."}
    /\ \E i \in 1..Len(s) : s[i] \in Digits
    /\ \A i \in 2..Len(s) : s[i] \in {"-", "+"} => s[i - 1] \in {"e", "E"}
    /\ Cardinality({i \in 1..Len(s) : s[i] = "."}) <= 1
    /\ Cardinality({i \in 1..Len(s) : s[i] \in {"e", "E"}}) <= 1
    /\ \A i \in 1..Len(s) : s[i] \in {"e", "E"} =>
          /\ \E j \in 1..(i - 1) : s[j] \in Digits
          /\ \A j \in (i + 1)..Len(s) : s[j] # "."

\* pullNumber that consumes the character that ended the run.
RECURSIVE pullNumber_loop_consuming(_, _, _)
pullNumber_loop_consuming(r, sb, containedDecimalOrE) ==
    LET n == next_char_raw(r)
    IN  IF n.c # EOF /\ n.c \in numberChars
        THEN pullNumber_loop_consuming(n.r, Append(sb, n.c),
                                       containedDecimalOrE \/ n.c \in {".", "e", "E"})
        ELSE LET back == n.r
                 evil == {i \in 1..Len(sb) : sb[i] \in notInUnquotedText}
                 u == sb[CHOOSE i \in evil : \A j \in evil : i <= j]
             IN  IF containedDecimalOrE /\ parseDouble_ok(sb)
                 THEN [r |-> back, t |-> new_double(parseDouble(sb), sb)]
                 ELSE IF ~containedDecimalOrE /\ parseLong_ok(sb)
                 THEN [r |-> back, t |-> new_long(parseLong(sb), sb)]
                 ELSE IF evil # {}
                 THEN [r |-> back, t |-> problem(u, "Reserved character is not allowed outside quotes")]
                 ELSE [r |-> back, t |-> new_unquoted_text(sb)]

RECURSIVE pullNumber_loop(_, _, _)
pullNumber_loop(r, sb, containedDecimalOrE) ==
    LET n == next_char_raw(r)
    IN  IF n.c # EOF /\ n.c \in numberChars
        THEN pullNumber_loop(n.r, Append(sb, n.c),
                             containedDecimalOrE \/ n.c \in {".", "e", "E"})
        ELSE LET back == putBack(n.r, n.c)
                 evil == {i \in 1..Len(sb) : sb[i] \in notInUnquotedText}
                 u == sb[CHOOSE i \in evil : \A j \in evil : i <= j]
             IN  IF containedDecimalOrE /\ parseDouble_ok(sb)
                 THEN [r |-> back, t |-> new_double(parseDouble(sb), sb)]
                 ELSE IF ~containedDecimalOrE /\ parseLong_ok(sb)
                 THEN [r |-> back, t |-> new_long(parseLong(sb), sb)]
                 ELSE IF evil # {}
                 THEN [r |-> back, t |-> problem(u, "Reserved character is not allowed outside quotes")]
                 ELSE [r |-> back, t |-> new_unquoted_text(sb)]

pullNumber(r, firstChar) == pullNumber_loop(r, <<firstChar>>, FALSE)

asString(ch) ==
    CASE ch = "\n" -> "newline"
      [] ch = "\t" -> "tab"
      [] ch = EOF -> "end of file"
      [] OTHER -> ch

\* Integer.parseInt(digits, 16): an optional sign, then hexadecimal digits.
HexChars == <<"0", "1", "2", "3", "4", "5", "6", "7", "8", "9", "a", "b", "c", "d", "e", "f">>
UpperHexChars == <<"0", "1", "2", "3", "4", "5", "6", "7", "8", "9", "A", "B", "C", "D", "E", "F">>
IsHex(ch) == \E i \in 1..16 : HexChars[i] = ch \/ UpperHexChars[i] = ch
HexDigit(ch) == (CHOOSE i \in 1..16 : HexChars[i] = ch \/ UpperHexChars[i] = ch) - 1
RECURSIVE HexValue(_)
HexValue(s) ==
    IF s = <<>> THEN 0
    ELSE 16 * HexValue(SubSeq(s, 1, Len(s) - 1)) + HexDigit(s[Len(s)])
Unsigned(s) == IF Len(s) > 0 /\ s[1] \in {"+", "-"} THEN Tail(s) ELSE s
parseInt_ok(s) ==
    Len(Unsigned(s)) > 0 /\ \A i \in 1..Len(Unsigned(s)) : IsHex(Unsigned(s)[i])
parseInt(s) ==
    IF s[1] = "-" THEN 0 - HexValue(Unsigned(s)) ELSE HexValue(Unsigned(s))

\* appendCodePoint(n) accepts the code points 0 .. 0x10FFFF.
isValidCodePoint(n) == n >= 0 /\ n <= 1114111
\* The character with code point n, for the code points of the characters
\* the inputs are made of; any other is the one character Other.
Other == "U+"
chr(n) ==
    CASE n = 10 -> "\n"
      [] n = 32 -> " "
      [] n = 34 -> "\""
      [] n = 92 -> "\\"
      [] n = 97 -> "a"
      [] OTHER -> Other

RECURSIVE read_chars(_, _, _)
\* nextCharRaw() n times, stopping at the end of the input.
read_chars(r, n, chars) ==
    IF n = 0 THEN [r |-> r, a |-> chars, eof |-> FALSE]
    ELSE LET read == next_char_raw(r)
         IN  IF read.c = EOF THEN [r |-> read.r, a |-> chars, eof |-> TRUE]
             ELSE read_chars(read.r, n - 1, Append(chars, read.c))

\* The four characters after \\u, read as a code point.
pullEscapeSequence_digits(sb, four) ==
    IF four.eof
    THEN [r |-> four.r, sb |-> sb,
          e |-> problem("", "End of input but expecting 4 hex digits for \\uXXXX escape")]
    ELSE IF ~parseInt_ok(four.a)
    THEN [r |-> four.r, sb |-> sb,
          e |-> problem(four.a, "Malformed hex digits after \\u escape in string")]
    ELSE IF ~isValidCodePoint(parseInt(four.a))
    THEN [r |-> raise(four.r, "IllegalArgumentException"), sb |-> sb, e |-> None]
    ELSE [r |-> four.r, sb |-> Append(sb, chr(parseInt(four.a))), e |-> None]

\* The switch of pullEscapeSequence on the character n.c read after the
\* backslash.
pullEscapeSequence_escaped(sb, n) ==
    LET done(s) == [r |-> n.r, sb |-> Append(sb, s), e |-> None]
    IN  IF n.c = EOF
        THEN [r |-> n.r, sb |-> sb,
              e |-> problem("", "End of input but backslash in string had nothing after it")]
        ELSE CASE n.c = "\"" -> done("\"")
               [] n.c = "\\" -> done("\\")
               [] n.c = "/" -> done("/")
               [] n.c = "b" -> done("U+0008")
               [] n.c = "f" -> done("U+000C")
               [] n.c = "n" -> done("\n")
               [] n.c = "r" -> done("U+000D")
               [] n.c = "t" -> done("\t")
               [] n.c = "u" -> pullEscapeSequence_digits(sb, read_chars(n.r, 4, <<>>))
               [] OTHER ->
                    [r |-> n.r, sb |-> sb,
                     e |-> problem(asString(n.c), "backslash followed by this is not a valid escape sequence")]

\* pullEscapeSequence(sb): the reader and sb after it, and the
\* ProblemException thrown (None when none is).
pullEscapeSequence(r, sb) == pullEscapeSequence_escaped(sb, next_char_raw(r))

\* appendTripleQuotedString that closes the string at the first three quotes.
RECURSIVE appendTripleQuotedString_first_three(_, _, _)
appendTripleQuotedString_first_three(r, sb, consecutiveQuotes) ==
    LET n == next_char_raw(r)
    IN  IF consecutiveQuotes >= 3
        THEN [r |-> putBack(n.r, n.c), sb |-> SubSeq(sb, 1, Len(sb) - 3), e |-> None]
        ELSE IF n.c = "\""
        THEN appendTripleQuotedString_first_three(n.r, Append(sb, n.c), consecutiveQuotes + 1)
        ELSE IF n.c = EOF
        THEN [r |-> n.r, sb |-> sb,
              e |-> problem("", "End of input but triple-quoted string was still open")]
        ELSE appendTripleQuotedString_first_three(
                 IF n.c = "\n" THEN [n.r EXCEPT !.line_number = @ + 1] ELSE n.r,
                 Append(sb, n.c), 0)

RECURSIVE appendTripleQuotedString(_, _, _)
\* The loop of appendTripleQuotedString(sb), entered with consecutiveQuotes.
appendTripleQuotedString(r, sb, consecutiveQuotes) ==
    LET n == next_char_raw(r)
    IN  IF n.c = "\""
        THEN appendTripleQuotedString(n.r, Append(sb, n.c), consecutiveQuotes + 1)
        ELSE IF consecutiveQuotes >= 3
        THEN [r |-> putBack(n.r, n.c), sb |-> SubSeq(sb, 1, Len(sb) - 3), e |-> None]
        ELSE IF n.c = EOF
        THEN [r |-> n.r, sb |-> sb,
              e |-> problem("", "End of input but triple-quoted string was still open")]
        ELSE appendTripleQuotedString(
                 IF n.c = "\n" THEN [n.r EXCEPT !.line_number = @ + 1] ELSE n.r,
                 Append(sb, n.c), 0)

RECURSIVE pullQuotedString_loop(_, _)

\* The loop after pullEscapeSequence has returned or thrown.
pullQuotedString_escaped(esc) ==
    IF esc.e # None \/ esc.r.raised # NotRaised THEN esc
    ELSE pullQuotedString_loop(esc.r, esc.sb)

\* One round of the do-while, for the character n.c read.
pullQuotedString_char(sb, n) ==
    IF n.c = EOF
    THEN [r |-> n.r, sb |-> sb,
          e |-> problem("", "End of input but string quote was still open")]
    ELSE IF n.c = "\\" THEN pullQuotedString_escaped(pullEscapeSequence(n.r, sb))
    ELSE IF n.c = "\"" THEN [r |-> n.r, sb |-> sb, e |-> None]
    ELSE IF isISOControl(n.c)
    THEN [r |-> n.r, sb |-> sb,
          e |-> problem(asString(n.c), "JSON does not allow unescaped this in quoted strings, use a backslash escape")]
    ELSE pullQuotedString_loop(n.r, Append(sb, n.c))

\* The do-while of pullQuotedString: sb at the closing quote.
pullQuotedString_loop(r, sb) == pullQuotedString_char(sb, next_char_raw(r))

\* The token of what appendTripleQuotedString left in sb.
pullQuotedString_triple(triple) ==
    IF triple.e # None THEN [r |-> triple.r, t |-> triple.e]
    ELSE [r |-> triple.r, t |-> new_string(triple.sb)]

\* After an empty quoted run: the character third decides.
pullQuotedString_third(body, third) ==
    IF third.c = "\""
    THEN pullQuotedString_triple(appendTripleQuotedString(third.r, body.sb, 0))
    ELSE [r |-> putBack(third.r, third.c), t |-> new_string(body.sb)]

\* pullQuotedString after its do-while.
pullQuotedString_end(body) ==
    IF body.e # None \/ body.r.raised # NotRaised THEN [r |-> body.r, t |-> body.e]
    ELSE IF Len(body.sb) = 0
    THEN pullQuotedString_third(body, next_char_raw(body.r))
    ELSE [r |-> body.r, t |-> new_string(body.sb)]

pullQuotedString(r) == pullQuotedString_end(pullQuotedString_loop(r, <<>>))

pullPlusEquals(r) ==
    LET n == next_char_raw(r)
    IN  IF n.c # "="
        THEN [r |-> n.r, t |-> problem(asString(n.c), "+ not followed by =")]
        ELSE [r |-> n.r, t |-> PLUS_EQUALS]

RECURSIVE pullSubstitution_loop(_, _, _, _)
RECURSIVE pullNextToken(_, _)

pullSubstitution(r) ==
    LET first == next_char_raw(r)
        second == next_char_raw(first.r)
        optional == second.c = "?"
        after == IF optional THEN second.r ELSE putBack(second.r, second.c)
    IN  IF first.c # "{"
        THEN [r |-> first.r, t |-> problem(asString(first.c), "$ not followed by {")]
        ELSE pullSubstitution_loop(after, WhitespaceSaver, optional, <<>>)

\* One round of the do-while of pullSubstitution, for what pullNextToken gave.
pullSubstitution_token(optional, expression, n) ==
    LET whitespace == saver_check(n.saver, n.t)
    IN  IF IsProblemException(n.t) \/ n.r.raised # NotRaised THEN [r |-> n.r, t |-> n.t]
        ELSE IF n.t = CLOSE_CURLY
        THEN [r |-> n.r, t |-> new_substitution(optional, expression)]
        ELSE IF n.t = END
        THEN [r |-> n.r, t |-> problem("", "Substitution ${ was not closed with a }")]
        ELSE pullSubstitution_loop(n.r, whitespace.saver, optional,
                                   (IF whitespace.t # None
                                    THEN Append(expression, whitespace.t)
                                    ELSE expression) \o <<n.t>>)

\* The do-while of pullSubstitution, with its own saver.
pullSubstitution_loop(r, saver, optional, expression) ==
    pullSubstitution_token(optional, expression, pullNextToken(r, saver))

\* The token for the character ch, comment being startOfComment(ch).
pullNextToken_switch(ch, comment) ==
    IF comment.b THEN pullComment(comment.r, ch)
    ELSE CASE ch = "\"" -> pullQuotedString(comment.r)
           [] ch = "$" -> pullSubstitution(comment.r)
           [] ch = ":" -> [r |-> comment.r, t |-> COLON]
           [] ch = "," -> [r |-> comment.r, t |-> COMMA]
           [] ch = "=" -> [r |-> comment.r, t |-> EQUALS]
           [] ch = "{" -> [r |-> comment.r, t |-> OPEN_CURLY]
           [] ch = "}" -> [r |-> comment.r, t |-> CLOSE_CURLY]
           [] ch = "[" -> [r |-> comment.r, t |-> OPEN_SQUARE]
           [] ch = "]" -> [r |-> comment.r, t |-> CLOSE_SQUARE]
           [] ch = "+" -> pullPlusEquals(comment.r)
           [] OTHER ->
                IF ch \in firstNumberChars THEN pullNumber(comment.r, ch)
                ELSE IF ch \in notInUnquotedText
                THEN [r |-> comment.r,
                      t |-> problem(asString(ch), "Reserved character is not allowed outside quotes")]
                ELSE pullUnquotedText(putBack(comment.r, ch))

\* The end of pullNextToken: the token pulled, which must not be null.
pullNextToken_pulled(saver, pulled) ==
    IF pulled.t = None
    THEN [r |-> raise(pulled.r, "BugOrBroken"), saver |-> saver, t |-> None]
    ELSE [r |-> pulled.r, saver |-> saver, t |-> pulled.t]

\* pullNextToken for the character n.c that nextCharAfterWhitespace gave.
pullNextToken_char(n) ==
    IF n.c = EOF THEN [r |-> n.r, saver |-> n.saver, t |-> END]
    ELSE IF n.c = "\n"
    THEN [r |-> [n.r EXCEPT !.line_number = @ + 1], saver |-> n.saver,
          t |-> new_line(n.r.line_number)]
    ELSE pullNextToken_pulled(n.saver, pullNextToken_switch(n.c, startOfComment(n.r, n.c)))

\* pullNextToken(saver): the reader and the saver after it, and the token
\* returned or the ProblemException thrown.
pullNextToken(r, saver) == pullNextToken_char(nextCharAfterWhitespace(r, saver))

\* The iterator: r, the queue tokens and whitespace_saver.
TokenIterator(input, allow_comments) ==
    [r |-> [input |-> input, buffer |-> <<>>, allow_comments |-> allow_comments,
            raised |-> NotRaised, line_number |-> 1],
     tokens |-> <<START>>,
     whitespace_saver |-> WhitespaceSaver]

\* queueNextToken after pullNextToken has returned or thrown n.
queueNextToken_pulled(self, n) ==
    LET whitespace == saver_check(n.saver, n.t)
    IN  IF IsProblemException(n.t) \/ n.r.raised # NotRaised
        THEN [self |-> [self EXCEPT !.r = n.r, !.whitespace_saver = n.saver], e |-> n.t]
        ELSE [self |-> [self EXCEPT !.r = n.r, !.whitespace_saver = whitespace.saver,
                                    !.tokens = (IF whitespace.t # None
                                                THEN Append(@, whitespace.t)
                                                ELSE @) \o <<n.t>>],
              e |-> None]

\* queueNextToken(): the iterator after it and the ProblemException thrown
\* (None when none is).
queueNextToken(self) ==
    queueNextToken_pulled(self, pullNextToken(self.r, self.whitespace_saver))

has_next(self) == self.tokens # <<>>

\* next() after queueNextToken: a ProblemException is caught and its token
\* queued; the queue must not be empty then.
next_queued(t, queued) ==
    LET caught == IF queued.e # None /\ queued.self.r.raised = NotRaised
                  THEN [queued.self EXCEPT !.tokens = Append(@, queued.e.problem)]
                  ELSE queued.self
        checked == IF caught.tokens = <<>> /\ caught.r.raised = NotRaised
                   THEN [caught EXCEPT !.r = raise(@, "BugOrBroken")]
                   ELSE caught
    IN  [self |-> checked, t |-> IF checked.r.raised = NotRaised THEN t ELSE None]

\* next(): the iterator after it and the token returned; when a step raised,
\* self.r.raised names the exception and nothing is returned.
next(self) ==
    IF Tail(self.tokens) = <<>> /\ Head(self.tokens) # END
    THEN next_queued(Head(self.tokens), queueNextToken([self EXCEPT !.tokens = Tail(@)]))
    ELSE [self |-> [self EXCEPT !.tokens = Tail(@)], t |-> Head(self.tokens)]

\* ------------------------------------------------------------- SpecTokens
\* A consumer iterates over tokenize(origin, input, flavor): next() while
\* has_next().  yielded is the tokens next() has returned so far.
MaxInput == 3
MaxBody == 6
InputChars == {"a", " ", "\n", "\"", "\\", "$", "{", "}", "+", "=", "1", "#", "/"}
TripleChars == {"a", "\"", "\n", "\\"}
RECURSIVE TextsOfLen(_, _)
TextsOfLen(chars, n) ==
    IF n = 0 THEN {<<>>}
    ELSE {<<ch>> \o s : ch \in chars, s \in TextsOfLen(chars, n - 1)}
TripleQuote == <<"\"", "\"", "\"">>
SampleInputs ==
    {<<"\"", "\\", "u", "-", "0", "0", "1", "\"">>,
     <<"\"", "\\", "u", "0", "0", "6", "1", "\"">>,
     <<"a", " ", "\\", "a">>,
     <<"a", " ", "\"", "\"">>,
     <<"a", " ", " ", "1", "a">>,
     <<"$", "{", "?", "a", " ", "a", "}", " ", "a">>,
     <<"t", "r", "u", "e", "a", "/", "/", "a">>,
     <<"1", "E", "1", "+">>,
     MaxLong, MinLong \o <<" ">>, <<"-">> \o MinLong, <<"-">> \o MaxLong \o <<"1">>,
     <<"0", "0">> \o MaxLong, <<"1">> \o MaxLong}
MaxNumber == 3
NumberChars == {"0", "1", "-", ".", "e", "+", "a"}
Inputs ==
    UNION {TextsOfLen(InputChars, n) : n \in 0..MaxInput}
    \cup {TripleQuote \o s : s \in UNION {TextsOfLen(TripleChars, n) : n \in 0..MaxBody}}
    \cup UNION {TextsOfLen(NumberChars, n) : n \in 0..MaxNumber}
    \cup SampleInputs

InitTokens ==
    /\ given \in Inputs
    /\ \E allow_comments \in BOOLEAN : it = TokenIterator(given, allow_comments)
    /\ yielded = <<>>
    /\ L = None /\ R = None /\ res = None
    /\ a = None /\ b = None /\ c = None /\ chain = None
    /\ obj = None /\ last = None /\ nops = 0
    /\ path = NoPath
    /\ heap = EmptyMemory /\ same = {}
    /\ h = <<"a", "b">>
    /\ pc = "init"

\* t = it.next(), called while it.has_next() and no call has raised.
NextToken ==
    /\ has_next(it) /\ it.r.raised = NotRaised
    /\ LET n == next(it)
       IN  /\ it' = n.self
           /\ yielded' = IF n.t # None THEN Append(yielded, n.t) ELSE yielded
    /\ UNCHANGED <<given, same, heap, L, R, res, a, b, c, chain, obj, last, nops, path, h, pc>>

NextTokens == NextToken
SpecTokens == InitTokens /\ [][NextTokens]_vars

\* C17: the iterator yields START first and END last and once, and has_next()
\* is true until END has been returned and false after it.
C17_StartToEnd ==
    /\ Len(yielded) > 0 => yielded[1] = START
    /\ \A i \in 1..Len(yielded) : yielded[i] = END => i = Len(yielded)
    /\ has_next(it) <=> (\A i \in 1..Len(yielded) : yielded[i] # END)

\* C18: no call of next() raises.
C18_NeverRaises == it.r.raised = NotRaised

\* The characters not yet consumed: those put back, then the rest of the input.
Pending(r) == SelectSeq(r.buffer, LAMBDA ch : ch # EOF) \o r.input
\* The length of the longest run of numberChars at the head of s.
RECURSIVE RunLength(_)
RunLength(s) == IF s # <<>> /\ s[1] \in numberChars THEN 1 + RunLength(Tail(s)) ELSE 0
NumberRun(s) == SubSeq(s, 1, 1 + RunLength(Tail(s)))
IsNumberToken(t, type) ==
    /\ is_value(t) /\ t.value.kind = "ConfigNumber" /\ t.value.value.type = type
NumberRule(s, n) ==
    LET run == NumberRun(s)
        double == \E i \in 1..Len(run) : run[i] \in {".", "e", "E"}
        parsed == IF double THEN parseDouble_ok(run) ELSE parseLong_ok(run)
        reserved == \E i \in 1..Len(run) : run[i] \in notInUnquotedText
    IN  /\ n.r.raised = NotRaised
        /\ Pending(n.r) = SubSeq(s, Len(run) + 1, Len(s))
        /\ parsed => /\ IsNumberToken(n.t, IF double THEN "double" ELSE "long")
                      /\ n.t.value.original_text = run
        /\ ~parsed /\ ~reserved => n.t = new_unquoted_text(run)
        /\ ~parsed /\ reserved => IsProblemException(n.t)
\* C21: a token that starts with a digit or - spans the longest following run
\* of number characters; it is a double if the run holds ., e or E and a long
\* otherwise; a run that does not parse (a long out of the 64-bit range
\* included) is unquoted text when it holds no reserved character and a
\* problem otherwise; the character that ended the run is not consumed.
C21_Numbers ==
    (it.r.raised = NotRaised /\ Pending(it.r) # <<>>
        /\ Pending(it.r)[1] \in firstNumberChars)
    => NumberRule(Pending(it.r), pullNextToken(it.r, it.whitespace_saver))
C21_Witness ==
    /\ given = MinLong \o <<" ">>
    /\ Len(yielded) = 2 /\ yielded[2] = new_unquoted_text(MinLong)
    /\ Pending(it.r) = <<>>

\* Two characters put back are read again last first, and leave the reader as it was.
ReadsBackLifo(r, first, second) ==
    LET back == putBack(putBack(r, first), second)
        one == next_char_raw(back)
        two == next_char_raw(one.r)
    IN  /\ back.raised = NotRaised
        /\ one.c = second /\ two.c = first /\ two.r = r
\* C25: putBack never finds more than two characters in the buffer, so it
\* never raises BugOrBroken; characters put back are read again last in first
\* out; startOfComment consumes nothing, whether or not a comment starts.
C25_PutBack ==
    /\ it.r.raised # "BugOrBroken"
    /\ Len(it.r.buffer) <= 2
    /\ it.r.raised = NotRaised =>
          /\ Len(it.r.buffer) = 0 =>
                \A first, second \in {"a", "/", EOF} :
                    first # second => ReadsBackLifo(it.r, first, second)
          /\ \A ch \in InputChars \cup {EOF} :
                LET after == startOfComment(it.r, ch).r
                IN  after.raised = NotRaised /\ Pending(after) = Pending(it.r)
\* The buffer holds two characters: the / that ended a, and the / looked at after it.
C25_Witness ==
    /\ it.r.buffer = <<"/", "/">>
    /\ it.r.allow_comments
    /\ startOfComment(next_char_raw(it.r).r, "/").b

\* The newline characters of s.
Newlines(s) == Cardinality({i \in 1..Len(s) : s[i] = "\n"})
\* The characters consumed from the input so far.
Consumed(self) == SubSeq(given, 1, Len(given) - Len(Pending(self.r)))
\* C30: the line number is 1 plus the number of newline characters consumed
\* so far, and a newline token carries the number of the line it ends.
C30_LineNumber ==
    it.r.raised = NotRaised =>
        /\ it.r.line_number = 1 + Newlines(Consumed(it))
        /\ \A i \in 1..Len(it.tokens) :
              (it.tokens[i].kind = "Token" /\ it.tokens[i].type = "newline")
                  => it.tokens[i].line_number = Newlines(Consumed(it))

IsWhitespaceToken(t) ==
    /\ is_unquoted_text(t)
    /\ Len(t.value) > 0
    /\ \A i \in 1..Len(t.value) : isWhitespace(t.value[i])

\* C19: a token carrying whitespace comes only after a simple value token.
C19_Whitespace ==
    \A i \in 1..Len(yielded) :
        IsWhitespaceToken(yielded[i]) => i > 1 /\ is_simple_value(yielded[i - 1])

\* The text after an opening triple quote, the ends of its runs of three or
\* more quotes, and the content the first such run closes.
IsTriple == Len(given) >= 3 /\ SubSeq(given, 1, 3) = TripleQuote
Body == SubSeq(given, 4, Len(given))
Quotes(i, j) == \A k \in i..j : Body[k] = "\""
RunEnds ==
    {j \in 3..Len(Body) :
        /\ \E i \in 1..(j - 2) :
              /\ Quotes(i, j)
              /\ \A k \in 1..(i - 1) : ~Quotes(k, k + 2)
        /\ j < Len(Body) => Body[j + 1] # "\""}
Content == SubSeq(Body, 1, (CHOOSE j \in RunEnds : TRUE) - 3)
Closed == RunEnds # {}

\* C20: after an opening triple quote the string holds the raw text up to the
\* first run of three or more quotes, less the last three quotes of that run;
\* without such a run a problem token is returned in place of the string.
C20_TripleQuoted ==
    (IsTriple /\ Len(yielded) >= 2) =>
        /\ Closed => yielded[2].kind = "ConfigString" /\ yielded[2].value = Content
        /\ ~Closed => is_problem(yielded[2])

\* A string closed by a run of four quotes, with a backslash and a newline
\* kept as they are.
C20_Witness ==
    /\ IsTriple /\ Len(yielded) >= 2 /\ Closed
    /\ yielded[2].kind = "ConfigString"
    /\ yielded[2].value = <<"\\", "\n", "\"">>

\* A triple-quoted string the end of the input leaves open.
C20_WitnessOpen ==
    /\ IsTriple /\ Len(yielded) >= 2 /\ ~Closed /\ Len(Body) > 2
    /\ is_problem(yielded[2])

====
